---------------------------- MODULE Spec2Model ----------------------------
(***************************************************************************)
(* A model of WaveClip (src/src/WaveClip.cpp): one clip with its Sequence, *)
(* its append buffer and its nested cut lines, driven by the clip's public *)
(* operations.                                                             *)
(*                                                                         *)
(* Time is counted in ticks of 50 microseconds, so that every time the     *)
(* model uses is an integer: 0.0001 s is 2 ticks, one sample is 2 ticks at *)
(* 10000 Hz and 4 ticks at 5000 Hz.  Arithmetic on times is exact: the      *)
(* rounding of IEEE doubles is not modelled.                               *)
(*                                                                         *)
(* A sample is an integer.  Samples handed to Append are numbered 1, 2, .. *)
(* in the order they are handed over, so that loss, duplication and        *)
(* reordering are all visible in the Sequence's content.                   *)
(***************************************************************************)
EXTENDS Integers, Sequences, FiniteSets, TLC

\* ------------------------------------------------------------- bounds
MaxBlockSize == 2      \* the Sequence's maximum block size, in samples
MaxLen == 2            \* longest input of one Append call, in samples
MaxOps == 3            \* WaveClip calls in one behaviour
bufsize == 2           \* samples per turn of Resample (65536 in the source)

\* ------------------------------------------------------------- units
TicksPerSecond == 1000000 \div 50
Rates == {10000, 5000}
Formats == {"int16", "float"}

VARIABLES
    clip,            \* the WaveClip under test
    idealAppendLen,  \* what the clip's Sequence answers to GetIdealAppendLen()
    pc,              \* "idle", or the operation whose loop is running
    job,             \* the locals of the running operation
    listener,        \* what the attached WaveClipListener was told by the last call
    other,           \* a second clip, the source of Paste
    fed,             \* the buffers handed to Append so far, in the Sequence's format
    lost,            \* an Append or a Flush has failed: samples handed over may be missing
    nextId,          \* the number of the next sample handed to Append
    raised,          \* the exception the last call ended with, or "none"
    nOps,            \* WaveClip calls made so far
    last,            \* the call that runs, or that ended last: its name, its
                     \* arguments, and the clip as it found it
    answer           \* what the last query of the clip has answered

vars == <<clip, idealAppendLen, pc, job, listener, other, fed, lost, nextId,
          raised, nOps, last, answer>>

\* ------------------------------------------------------------- helpers
Min(a, b) == IF a < b THEN a ELSE b
Max(a, b) == IF a > b THEN a ELSE b
Abs(a) == IF a < 0 THEN 0 - a ELSE a
Take(s, n) == SubSeq(s, 1, n)
Drop(s, n) == SubSeq(s, n + 1, Len(s))
IsPrefix(p, s) == Len(p) <= Len(s) /\ Take(s, Len(p)) = p
Ids(a, n) == [i \in 1..n |-> a + i - 1]
Range(s) == {s[i] : i \in 1..Len(s)}

\* ------------------------------------------------------------- Sequence
\* Narrowing a float sample to int16 loses information (marked by the sign);
\* every other conversion keeps the value.
ConvertSample(v, from, to) ==
    IF from = "float" /\ to = "int16" /\ v > 0 THEN 0 - v ELSE v

CopySamples(buffer, from, to) ==
    [i \in 1..Len(buffer) |-> ConvertSample(buffer[i], from, to)]

SeqAppend(samples, buffer) == samples \o buffer

\* ------------------------------------------------------------- WaveClip
\* A clip is an object: id tells one object from another.  An object made by
\* the call number k as a copy of the object id is <<k>> \o id; a clip's
\* Sequence and Envelope are its own (std::unique_ptr) and share its identity.
NewClip(format, rate) ==
    [id |-> <<0>>, offset |-> 0, rate |-> rate, fmt |-> format, samples |-> <<>>,
     buf |-> <<>>, envOffset |-> 0, cutLines |-> <<>>,
     colourIndex |-> 0, isPlaceholder |-> FALSE]

\* The clip objects of c: c itself and its cut lines, at every depth.
RECURSIVE Objects(_)
Objects(c) ==
    {c} \cup UNION {Objects(c.cutLines[i]) : i \in 1..Len(c.cutLines)}

\* The clip o as it is once the clip c has changed: an object of o that is
\* also an object of c is what c has made of it.
RECURSIVE Through(_, _)
Through(o, c) ==
    LET same == {x \in Objects(c) : x.id = o.id}
    IN  IF same # {} THEN CHOOSE x \in same : TRUE
        ELSE [o EXCEPT !.cutLines = [i \in 1..Len(@) |-> Through(@[i], c)]]

\* The other clip once the clip has changed.
OtherThrough == other' = Through(other, clip')

GetNumSamples(c) == Len(c.samples)

SamplesToTime(n, rate) == (n * TicksPerSecond) \div rate

GetStartTime(c) == c.offset

\* An end time that leaves the append buffer out.
GetEndTimeFlushed(c) == c.offset + SamplesToTime(GetNumSamples(c), c.rate)

\* Lines 168-177: the end time counts the append buffer.
GetEndTime(c) == c.offset + SamplesToTime(GetNumSamples(c) + Len(c.buf), c.rate)

\* What MarkChanged lets a listener see: the call counts, and the clip as it
\* is at the moment of the call.
Quiet == [marks |-> 0, invalidates |-> 0, seen |-> <<>>]

Seen(c) == <<c.samples, c.buf, c.rate, c.offset>>

\* A MarkChanged that tells nobody.
MarkChangedNot(l, c) == l

MarkChanged(l, c) == [l EXCEPT !.marks = 1, !.seen = Seen(c)]

\* ------------------------------------------------------------- Append
NoJob == [op |-> "none"]

\* A call as last records it: t0 and t1 are its arguments (0 where it has
\* fewer), pre is the clip it is made on.
Call(op, pre, t0, t1) == [op |-> op, pre |-> pre, t0 |-> t0, t1 |-> t1]

\* A flush that forgets the rest of the buffer instead of moving it up.
AppendFlushDrop(c, blockSize) ==
    [c EXCEPT !.samples = SeqAppend(@, Take(c.buf, blockSize)),
              !.buf = <<>>]

\* Lines 307-314: blockSize samples go from the front of the append buffer
\* to the Sequence, and the rest of the buffer moves to the front.
AppendFlush(c, blockSize) ==
    [c EXCEPT !.samples = SeqAppend(@, Take(c.buf, blockSize)),
              !.buf = Drop(@, blockSize)]

\* A copy that takes up to a block of the input, whatever the buffer holds.
ToCopyBlock(len, bufLen) == Min(len, MaxBlockSize)

\* A copy that takes the whole input, whatever room the buffer has.
ToCopyAll(len, bufLen) == len

\* Line 323: std::min(len, maxBlockSize - mAppendBufferLen) on size_t, where
\* a negative difference wraps to a huge number.
ToCopy(len, bufLen) ==
    IF MaxBlockSize - bufLen < 0 THEN len ELSE Min(len, MaxBlockSize - bufLen)

\* A turn whose failing Sequence append takes the flushed block with it.
AppendTurnLossy(c, j, ideal0, ok, ideal) ==
    LET flushing == Len(c.buf) >= j.blockSize
        c1 == IF flushing THEN AppendFlush(c, j.blockSize) ELSE c
        bs == IF flushing THEN ideal ELSE j.blockSize
        id1 == IF flushing THEN ideal ELSE ideal0
        toCopy == ToCopy(Len(j.buffer), Len(c1.buf))
    IN  IF flushing /\ ~ok
        THEN [status |-> "throw", clip |-> [c EXCEPT !.buf = Drop(@, j.blockSize)],
              job |-> j, ideal |-> ideal0]
        ELSE IF j.buffer = <<>>
        THEN [status |-> "break", clip |-> c1,
              job |-> [j EXCEPT !.blockSize = bs], ideal |-> id1]
        ELSE [status |-> "loop",
              clip |-> [c1 EXCEPT !.buf = @ \o CopySamples(Take(j.buffer, toCopy),
                                                        j.format, c1.fmt)],
              job |-> [j EXCEPT !.blockSize = bs, !.buffer = Drop(@, toCopy)],
              ideal |-> id1]

\* One turn of the for(;;) loop of Append.  ok: the Sequence append, if this
\* turn makes one, succeeds; ideal: the Sequence's ideal append length after
\* it.  status is "loop", "break" (len == 0) or "throw".
AppendTurn(c, j, ideal0, ok, ideal) ==
    LET flushing == Len(c.buf) >= j.blockSize
        c1 == IF flushing THEN AppendFlush(c, j.blockSize) ELSE c
        bs == IF flushing THEN ideal ELSE j.blockSize
        id1 == IF flushing THEN ideal ELSE ideal0
        toCopy == ToCopy(Len(j.buffer), Len(c1.buf))
    IN  IF flushing /\ ~ok
        THEN [status |-> "throw", clip |-> c, job |-> j, ideal |-> ideal0]
        ELSE IF j.buffer = <<>>
        THEN [status |-> "break", clip |-> c1,
              job |-> [j EXCEPT !.blockSize = bs], ideal |-> id1]
        ELSE [status |-> "loop",
              clip |-> [c1 EXCEPT !.buf = @ \o CopySamples(Take(j.buffer, toCopy),
                                                        j.format, c1.fmt)],
              job |-> [j EXCEPT !.blockSize = bs, !.buffer = Drop(@, toCopy)],
              ideal |-> id1]

AppendBegin(len, format) ==
    /\ pc = "idle"
    /\ nOps < MaxOps
    /\ pc' = "append"
    /\ job' = [op |-> "Append", buffer |-> Ids(nextId, len), format |-> format,
               blockSize |-> idealAppendLen,
               input |-> CopySamples(Ids(nextId, len), format, clip.fmt),
               pre |-> clip]
    /\ nextId' = nextId + len
    /\ fed' = Append(fed, CopySamples(Ids(nextId, len), format, clip.fmt))
    /\ nOps' = nOps + 1
    /\ last' = Call("Append", clip, len, 0)
    /\ listener' = Quiet
    /\ raised' = "none"
    /\ UNCHANGED <<clip, idealAppendLen, other, lost, answer>>

AppendIter ==
    /\ pc = "append"
    /\ \E ok \in BOOLEAN, ideal \in 1..MaxBlockSize :
         LET r == AppendTurn(clip, job, idealAppendLen, ok, ideal)
         IN  /\ clip' = r.clip
             /\ idealAppendLen' = r.ideal
             /\ IF r.status = "loop"
                THEN /\ pc' = "append"
                     /\ job' = r.job
                     /\ UNCHANGED listener
                ELSE /\ pc' = "idle"
                     /\ job' = NoJob
                     /\ listener' = MarkChanged(listener, r.clip)
             /\ raised' = IF r.status = "throw" THEN "Sequence" ELSE "none"
             /\ lost' = (lost \/ r.status = "throw")
    /\ OtherThrough
    /\ UNCHANGED <<fed, nextId, nOps, last, answer>>

\* ------------------------------------------------------------- Flush
\* A Flush that keeps the buffer when the Sequence append fails.
FlushClipKeep(c, ok) ==
    IF Len(c.buf) > 0 /\ ok
    THEN [c EXCEPT !.samples = SeqAppend(@, c.buf), !.buf = <<>>]
    ELSE c

\* Lines 372-386: the buffer goes to the Sequence, and is emptied whether
\* or not that succeeds.
FlushClip(c, ok) ==
    IF Len(c.buf) > 0
    THEN [c EXCEPT !.samples = IF ok THEN SeqAppend(@, c.buf) ELSE @,
                   !.buf = <<>>]
    ELSE c

Flush ==
    /\ pc = "idle"
    /\ nOps < MaxOps
    /\ \E ok \in BOOLEAN, ideal \in 1..MaxBlockSize :
         /\ clip' = FlushClip(clip, ok)
         /\ idealAppendLen' = IF Len(clip.buf) > 0 /\ ok THEN ideal
                              ELSE idealAppendLen
         /\ listener' = IF Len(clip.buf) > 0
                        THEN MarkChanged(Quiet, FlushClip(clip, ok))
                        ELSE Quiet
         /\ raised' = IF Len(clip.buf) > 0 /\ ~ok THEN "Sequence" ELSE "none"
         /\ lost' = (lost \/ (Len(clip.buf) > 0 /\ ~ok))
    /\ nOps' = nOps + 1
    /\ last' = Call("Flush", clip, 0, 0)
    /\ OtherThrough
    /\ UNCHANGED <<pc, job, fed, nextId, answer>>

\* ------------------------------------------------------------- times
\* A conversion that rounds every time up to the next sample.
TimeToSamplesClipUp(c, t) ==
    IF t < c.offset THEN 0
    ELSE IF t > c.offset + SamplesToTime(GetNumSamples(c), c.rate)
    THEN GetNumSamples(c)
    ELSE Min(GetNumSamples(c),
             (2 * (t - c.offset) * c.rate + 2 * TicksPerSecond)
                \div (2 * TicksPerSecond))

\* A conversion that drops the fraction of a sample instead of rounding.
TimeToSamplesClipDown(c, t) ==
    IF t < c.offset THEN 0
    ELSE IF t > c.offset + SamplesToTime(GetNumSamples(c), c.rate)
    THEN GetNumSamples(c)
    ELSE ((t - c.offset) * c.rate) \div TicksPerSecond

\* TimeToSamplesClip: floor((t0 - mOffset) * mRate + 0.5), clamped to the
\* Sequence (the append buffer does not count).
TimeToSamplesClip(c, t) ==
    IF t < c.offset THEN 0
    ELSE IF t > c.offset + SamplesToTime(GetNumSamples(c), c.rate)
    THEN GetNumSamples(c)
    ELSE (2 * (t - c.offset) * c.rate + TicksPerSecond) \div (2 * TicksPerSecond)

SetOffset(c, offset) == [c EXCEPT !.offset = offset, !.envOffset = offset]

Offset(c, delta) == SetOffset(c, c.offset + delta)

\* ------------------------------------------------------------- copies
\* A copy that takes the samples pending in the append buffer with it.
RECURSIVE CopyClipPending(_, _, _)
CopyClipPending(orig, copyCutlines, k) ==
    [id |-> <<k>> \o orig.id,
     offset |-> orig.offset, rate |-> orig.rate, fmt |-> orig.fmt,
     colourIndex |-> orig.colourIndex, isPlaceholder |-> orig.isPlaceholder,
     samples |-> orig.samples, buf |-> orig.buf, envOffset |-> orig.envOffset,
     cutLines |-> IF copyCutlines
                  THEN [i \in 1..Len(orig.cutLines) |->
                            CopyClipPending(orig.cutLines[i], TRUE, k)]
                  ELSE <<>>]

\* A copy that takes the original's cut lines over as they are, the objects
\* themselves, instead of copying them.
CopyClipShallow(orig, copyCutlines, k) ==
    [id |-> <<k>> \o orig.id,
     offset |-> orig.offset, rate |-> orig.rate, fmt |-> orig.fmt,
     colourIndex |-> orig.colourIndex, isPlaceholder |-> orig.isPlaceholder,
     samples |-> orig.samples, buf |-> <<>>, envOffset |-> orig.envOffset,
     cutLines |-> IF copyCutlines THEN orig.cutLines ELSE <<>>]

\* Lines 58-79: a new clip with a new Sequence and a new Envelope, and a new
\* clip for every cut line, at every depth.
RECURSIVE CopyClip(_, _, _)
CopyClip(orig, copyCutlines, k) ==
    [id |-> <<k>> \o orig.id,
     offset |-> orig.offset, rate |-> orig.rate, fmt |-> orig.fmt,
     colourIndex |-> orig.colourIndex, isPlaceholder |-> orig.isPlaceholder,
     samples |-> orig.samples, buf |-> <<>>, envOffset |-> orig.envOffset,
     cutLines |-> IF copyCutlines
                  THEN [i \in 1..Len(orig.cutLines) |->
                            CopyClip(orig.cutLines[i], TRUE, k)]
                  ELSE <<>>]

\* A range test that leaves the two ends out.
InRangeOpen(orig, cl, t0, t1) ==
    orig.offset + cl.offset > t0 /\ orig.offset + cl.offset < t1

\* cutlinePosition >= t0 && cutlinePosition <= t1, both ends included.
InRange(orig, cl, t0, t1) ==
    orig.offset + cl.offset >= t0 /\ orig.offset + cl.offset <= t1

\* A copy of a range that keeps the stored offsets of the cut lines it takes.
CopyRangeUnmoved(orig, copyCutlines, t0, t1, k) ==
    LET s0 == TimeToSamplesClip(orig, t0)
        s1 == TimeToSamplesClip(orig, t1)
        inside == SelectSeq(orig.cutLines, LAMBDA cl : InRange(orig, cl, t0, t1))
    IN  [id |-> <<k>> \o orig.id,
         offset |-> orig.offset, rate |-> orig.rate, fmt |-> orig.fmt,
     colourIndex |-> orig.colourIndex, isPlaceholder |-> orig.isPlaceholder,
         samples |-> SubSeq(orig.samples, s0 + 1, s1), buf |-> <<>>,
         envOffset |-> orig.offset,
         cutLines |-> IF copyCutlines
                      THEN [i \in 1..Len(inside) |-> CopyClip(inside[i], TRUE, k)]
                      ELSE <<>>]

\* Lines 81-121: the copy of the range [t0, t1] of a clip, with copies of the
\* cut lines within the range, each at its position less t0.
CopyRange(orig, copyCutlines, t0, t1, k) ==
    LET s0 == TimeToSamplesClip(orig, t0)
        s1 == TimeToSamplesClip(orig, t1)
        inside == SelectSeq(orig.cutLines, LAMBDA cl : InRange(orig, cl, t0, t1))
    IN  [id |-> <<k>> \o orig.id,
         offset |-> orig.offset, rate |-> orig.rate, fmt |-> orig.fmt,
     colourIndex |-> orig.colourIndex, isPlaceholder |-> orig.isPlaceholder,
         samples |-> SubSeq(orig.samples, s0 + 1, s1), buf |-> <<>>,
         envOffset |-> orig.offset,
         cutLines |-> IF copyCutlines
                      THEN [i \in 1..Len(inside) |->
                               SetOffset(CopyClip(inside[i], TRUE, k),
                                         orig.offset + inside[i].offset - t0)]
                      ELSE <<>>]

\* ------------------------------------------------------------- cut lines
\* A shift that leaves a cut line lying exactly at t0 where it is.
OffsetCutLinesAfter(c, t0, len) ==
    [c EXCEPT !.cutLines =
        [i \in 1..Len(@) |-> IF c.offset + @[i].offset > t0
                             THEN Offset(@[i], len) ELSE @[i]]]

\* Lines 747-755: every cut line at or after t0 is moved by len.
OffsetCutLines(c, t0, len) ==
    [c EXCEPT !.cutLines =
        [i \in 1..Len(@) |-> IF c.offset + @[i].offset >= t0
                             THEN Offset(@[i], len) ELSE @[i]]]

\* The loop Clear and ClearAndAddCutLine share: cut lines within [t0, t1] are
\* erased, those at or after t1 are moved by clip_t0 - clip_t1.
ClearCutLines(c, t0, t1, clip_t0, clip_t1) ==
    LET kept == SelectSeq(c.cutLines, LAMBDA cl : ~InRange(c, cl, t0, t1))
    IN  [c EXCEPT !.cutLines =
            [i \in 1..Len(kept) |-> IF c.offset + kept[i].offset >= t1
                                    THEN Offset(kept[i], clip_t0 - clip_t1)
                                    ELSE kept[i]]]

\* The first cut line, in list order, within 0.0001 s of the position; 0 if none.
CutLineTolerance == 2

Matches(c, i, cutLinePosition) ==
    Abs(c.offset + c.cutLines[i].offset - cutLinePosition) < CutLineTolerance

\* A search that takes the last cut line within the tolerance.
FindCutLineLast(c, cutLinePosition) ==
    LET hits == {i \in 1..Len(c.cutLines) : Matches(c, i, cutLinePosition)}
    IN  IF hits = {} THEN 0 ELSE CHOOSE i \in hits : \A k \in hits : i >= k

FindCutLine(c, cutLinePosition) ==
    LET hits == {i \in 1..Len(c.cutLines) : Matches(c, i, cutLinePosition)}
    IN  IF hits = {} THEN 0 ELSE CHOOSE i \in hits : \A k \in hits : i <= k

RemoveAt(s, i) == [k \in 1..(Len(s) - 1) |-> IF k < i THEN s[k] ELSE s[k + 1]]

\* ------------------------------------------------------------- Clear
\* Sequence::Delete(start, len) and the splice operations, on the content.
SeqDelete(samples, start, len) == Take(samples, start) \o Drop(samples, start + len)

SeqPaste(samples, s0, src) == Take(samples, s0) \o src \o Drop(samples, s0)

Silence(n) == [i \in 1..n |-> 0]

\* A shift that takes the cut lines' stored offsets back by what the clip
\* has moved.
ShiftToStartAnchored(c, t0) ==
    IF t0 < GetStartTime(c)
    THEN [Offset(c, 0 - (GetStartTime(c) - t0)) EXCEPT !.cutLines =
             [i \in 1..Len(@) |-> Offset(@[i], GetStartTime(c) - t0)]]
    ELSE c

\* The tail Clear and ClearAndAddCutLine share: if t0 lies before the clip,
\* the clip is moved to start at t0.
ShiftToStart(c, t0) ==
    IF t0 < GetStartTime(c) THEN Offset(c, 0 - (GetStartTime(c) - t0)) ELSE c

\* Each operation yields [clip, threw, listener]; ok says whether the
\* Sequence operation it delegates to succeeds.  Lines 564-623: the samples
\* are deleted first (573), and clip_t0 and clip_t1 are taken from the clip
\* after that (589-594), so GetEndTime() is here the end of what is left.
ClearClip(c, t0, t1, ok) ==
    LET s0 == TimeToSamplesClip(c, t0)
        s1 == TimeToSamplesClip(c, t1)
        c1 == [c EXCEPT !.samples = SeqDelete(@, s0, s1 - s0)]
        clip_t0 == Max(t0, GetStartTime(c1))
        clip_t1 == Min(t1, GetEndTime(c1))
        c2 == ClearCutLines(c1, t0, t1, clip_t0, clip_t1)
        c3 == ShiftToStart(c2, t0)
    IN  IF ~ok \/ s1 - s0 < 0
        THEN [clip |-> c, threw |-> TRUE, listener |-> Quiet]
        ELSE [clip |-> c3, threw |-> FALSE, listener |-> MarkChanged(Quiet, c3)]

\* A cut that pushes the snapshot before it asks the Sequence to delete.
ClearAndAddCutLineClipPushed(c, t0, t1, fault, k) ==
    LET clip_t0 == Max(t0, GetStartTime(c))
        clip_t1 == Min(t1, GetEndTime(c))
        newClip == SetOffset(CopyRange(c, TRUE, clip_t0, clip_t1, k),
                             clip_t0 - c.offset)
        c1 == ClearCutLines(c, t0, t1, clip_t0, clip_t1)
        c1p == [c1 EXCEPT !.cutLines = Append(@, newClip)]
        s0 == TimeToSamplesClip(c1, t0)
        s1 == TimeToSamplesClip(c1, t1)
        c2 == [c1p EXCEPT !.samples = SeqDelete(@, s0, s1 - s0)]
        c3 == ShiftToStart(c2, t0)
    IN  IF t0 > GetEndTime(c) \/ t1 < GetStartTime(c)
        THEN [clip |-> c, threw |-> FALSE, listener |-> Quiet]
        ELSE IF fault = "copy"
        THEN [clip |-> c, threw |-> TRUE, listener |-> Quiet]
        ELSE IF fault = "delete" \/ s1 - s0 < 0
        THEN [clip |-> c1p, threw |-> TRUE, listener |-> Quiet]
        ELSE [clip |-> c3, threw |-> FALSE, listener |-> MarkChanged(Quiet, c3)]

\* k: the number of the call.  fault: "none", or the step that fails:
\* "copy", the snapshot of [clip_t0, clip_t1]; "delete", the Sequence's
\* Delete.
ClearAndAddCutLineClip(c, t0, t1, fault, k) ==
    LET clip_t0 == Max(t0, GetStartTime(c))
        clip_t1 == Min(t1, GetEndTime(c))
        newClip == SetOffset(CopyRange(c, TRUE, clip_t0, clip_t1, k),
                             clip_t0 - c.offset)
        c1 == ClearCutLines(c, t0, t1, clip_t0, clip_t1)
        s0 == TimeToSamplesClip(c1, t0)
        s1 == TimeToSamplesClip(c1, t1)
        c2 == [c1 EXCEPT !.samples = SeqDelete(@, s0, s1 - s0)]
        c3 == ShiftToStart(c2, t0)
        c4 == [c3 EXCEPT !.cutLines = Append(@, newClip)]
    IN  IF t0 > GetEndTime(c) \/ t1 < GetStartTime(c)
        THEN [clip |-> c, threw |-> FALSE, listener |-> Quiet]
        ELSE IF fault = "copy"
        THEN [clip |-> c, threw |-> TRUE, listener |-> Quiet]
        ELSE IF fault = "delete" \/ s1 - s0 < 0
        THEN [clip |-> c1, threw |-> TRUE, listener |-> Quiet]
        ELSE [clip |-> c4, threw |-> FALSE, listener |-> MarkChanged(Quiet, c3)]

\* ------------------------------------------------------------- Paste
ConvertToSampleFormat(c, format) ==
    [c EXCEPT !.fmt = format, !.samples = CopySamples(@, c.fmt, format)]

\* A Paste that moves the cut lines before it asks the Sequence to paste.
PasteTailEager(c, t0, pastedClip, ok, k) ==
    LET newCutlines == [i \in 1..Len(pastedClip.cutLines) |->
                           Offset(CopyClip(pastedClip.cutLines[i], TRUE, k),
                                  t0 - c.offset)]
        s0 == TimeToSamplesClip(c, t0)
        c0 == OffsetCutLines(c, t0,
                             GetEndTime(pastedClip) - GetStartTime(pastedClip))
        c1 == [c0 EXCEPT !.samples = SeqPaste(@, s0, pastedClip.samples)]
        c3 == [c1 EXCEPT !.cutLines = @ \o newCutlines]
    IN  IF ~ok
        THEN [clip |-> c0, threw |-> TRUE, listener |-> Quiet]
        ELSE [clip |-> c3, threw |-> FALSE, listener |-> MarkChanged(Quiet, c1)]

\* Lines 494-522 of Paste: pastedClip is other itself, or the private copy.
PasteTail(c, t0, pastedClip, ok, k) ==
    LET newCutlines == [i \in 1..Len(pastedClip.cutLines) |->
                           Offset(CopyClip(pastedClip.cutLines[i], TRUE, k),
                                  t0 - c.offset)]
        s0 == TimeToSamplesClip(c, t0)
        c1 == [c EXCEPT !.samples = SeqPaste(@, s0, pastedClip.samples)]
        c2 == OffsetCutLines(c1, t0,
                             GetEndTime(pastedClip) - GetStartTime(pastedClip))
        c3 == [c2 EXCEPT !.cutLines = @ \o newCutlines]
    IN  IF ~ok
        THEN [clip |-> c, threw |-> TRUE, listener |-> Quiet]
        ELSE [clip |-> c3, threw |-> FALSE, listener |-> MarkChanged(Quiet, c1)]

\* Paste once the clip to convert and paste is known: newClip is other when
\* rate and format agree, and otherwise the private copy, already resampled
\* if that was needed.  fault: "none", or the step that fails: "convert",
\* the format conversion; "cutlines", a copy of one of the pasted clip's cut
\* lines; "paste", Sequence::Paste.
PasteFrom(c, t0, newClip, fault, k) ==
    IF newClip.fmt # c.fmt /\ fault = "convert"
    THEN [clip |-> c, threw |-> TRUE, listener |-> Quiet]
    ELSE IF newClip.cutLines # <<>> /\ fault = "cutlines"
    THEN [clip |-> c, threw |-> TRUE, listener |-> Quiet]
    ELSE PasteTail(c, t0,
                   IF newClip.fmt # c.fmt
                   THEN ConvertToSampleFormat(newClip, c.fmt) ELSE newClip,
                   fault # "paste", k)

\* A Paste that always works on other itself.
PasteSourceShared(c, o, k) == [ref |-> "other", clip |-> o]

\* The clip Paste works on: other itself, or a private copy of it.
PasteSource(c, o, k) ==
    IF o.rate # c.rate \/ o.fmt # c.fmt
    THEN [ref |-> "copy", clip |-> CopyClip(o, TRUE, k)]
    ELSE [ref |-> "other", clip |-> o]

\* The object Paste worked on, as Paste leaves it.
Converted(c, newClip, fault) ==
    IF newClip.fmt # c.fmt /\ fault # "convert"
    THEN ConvertToSampleFormat(newClip, c.fmt) ELSE newClip

\* ------------------------------------------------------------- InsertSilence
TimeToLength(len, rate) ==
    (2 * len * rate + TicksPerSecond) \div (2 * TicksPerSecond)

\* An InsertSilence that moves the cut lines before it asks the Sequence.
InsertSilenceClipEager(c, t, len, ok) ==
    LET s0 == TimeToSamplesClip(c, t)
        slen == TimeToLength(len, c.rate)
        c0 == OffsetCutLines(c, t, len)
        c2 == [c0 EXCEPT !.samples = SeqPaste(@, s0, Silence(slen))]
    IN  IF ~ok
        THEN [clip |-> c0, threw |-> TRUE, listener |-> Quiet]
        ELSE [clip |-> c2, threw |-> FALSE, listener |-> MarkChanged(Quiet, c2)]

\* Lines 524-555: the Sequence is asked first, and then the cut lines at or
\* after t are moved by len.
InsertSilenceClip(c, t, len, ok) ==
    LET s0 == TimeToSamplesClip(c, t)
        slen == TimeToLength(len, c.rate)
        c1 == [c EXCEPT !.samples = SeqPaste(@, s0, Silence(slen))]
        c2 == OffsetCutLines(c1, t, len)
    IN  IF ~ok
        THEN [clip |-> c, threw |-> TRUE, listener |-> Quiet]
        ELSE [clip |-> c2, threw |-> FALSE, listener |-> MarkChanged(Quiet, c2)]

\* ------------------------------------------------------------- cut line calls
\* ExpandCutLine before its Paste: the matched cut line's envelope is moved
\* to offset 0.
ExpandPrepare(c, i) == [c EXCEPT !.cutLines[i].envOffset = 0]

RemoveCutLineClip(c, cutLinePosition) ==
    LET i == FindCutLine(c, cutLinePosition)
    IN  IF i = 0
        THEN [clip |-> c, threw |-> FALSE, listener |-> Quiet]
        ELSE [clip |-> [c EXCEPT !.cutLines = RemoveAt(@, i)],
              threw |-> FALSE, listener |-> Quiet]

\* ------------------------------------------------------------- simple setters
SetRateClip(c, rate) ==
    LET c1 == [c EXCEPT !.rate = rate]
    IN  [clip |-> c1, threw |-> FALSE, listener |-> MarkChanged(Quiet, c1)]

SetSamplesClip(c, buffer, format, start, ok) ==
    LET c1 == [c EXCEPT !.samples =
                   [i \in 1..Len(@) |->
                       IF i > start /\ i <= start + Len(buffer)
                       THEN ConvertSample(buffer[i - start], format, c.fmt)
                       ELSE @[i]]]
    IN  IF ~ok \/ start + Len(buffer) > GetNumSamples(c)
        THEN [clip |-> c, threw |-> TRUE, listener |-> Quiet]
        ELSE [clip |-> c1, threw |-> FALSE, listener |-> MarkChanged(Quiet, c1)]

\* ------------------------------------------------------------- Resample
\* The value of a sample the resampler puts out.
Resampled == 99

\* The most the resampler puts out for n samples: n * factor, rounded up.
OutputQuota(n, from, to) == (n * to + from - 1) \div from

\* The job of a Resample call on target: the locals of its loop, what the
\* caller does with the result (cont), and whether the number of turns made
\* is odd (turn), which tells a turn that changes no local from no turn.
ResampleJob(target, rate, progress, cont) ==
    [op |-> "Resample", target |-> target, rate |-> rate, progress |-> progress,
     pos |-> 0, outGenerated |-> 0, newSamples |-> <<>>, cont |-> cont,
     turn |-> 0]

LoopRuns(j) == j.pos < GetNumSamples(j.target) \/ j.outGenerated > 0

InLen(j) == Min(bufsize, GetNumSamples(j.target) - j.pos)

\* A turn that does not look at what ProgressDialog::Update reports.
ResampleTurnDeaf(j, getOk, consumed, produced, appendOk, upd) ==
    LET j1 == [j EXCEPT !.pos = @ + consumed, !.outGenerated = produced,
                        !.turn = 1 - @]
        j2 == [j1 EXCEPT !.newSamples =
                  SeqAppend(@, CopySamples([i \in 1..produced |-> Resampled],
                                           "float", j.target.fmt))]
    IN  IF ~getOk
        THEN [status |-> "throw", raised |-> "Resampling failed.", job |-> j]
        ELSE IF produced < 0
        THEN [status |-> "throw", raised |-> "Resampling failed.", job |-> j1]
        ELSE IF produced > 0 /\ ~appendOk
        THEN [status |-> "throw", raised |-> "Sequence", job |-> j1]
        ELSE [status |-> "loop", raised |-> "none", job |-> j2]

\* A turn that does not move pos on by what the resampler has consumed.
ResampleTurnStuck(j, getOk, consumed, produced, appendOk, upd) ==
    LET j1 == [j EXCEPT !.outGenerated = produced, !.turn = 1 - @]
        j2 == [j1 EXCEPT !.newSamples =
                  SeqAppend(@, CopySamples([i \in 1..produced |-> Resampled],
                                           "float", j.target.fmt))]
    IN  IF ~getOk
        THEN [status |-> "throw", raised |-> "Resampling failed.", job |-> j]
        ELSE IF produced < 0
        THEN [status |-> "throw", raised |-> "Resampling failed.", job |-> j1]
        ELSE IF produced > 0 /\ ~appendOk
        THEN [status |-> "throw", raised |-> "Sequence", job |-> j1]
        ELSE IF j.progress /\ upd # "Success"
        THEN [status |-> "throw", raised |-> "UserException", job |-> j2]
        ELSE [status |-> "loop", raised |-> "none", job |-> j2]

\* One turn of the while loop of Resample.  getOk: Sequence::Get succeeds;
\* consumed, produced: what Resample::Process reports; appendOk: the append
\* to the new Sequence succeeds; upd: what ProgressDialog::Update reports.
ResampleTurn(j, getOk, consumed, produced, appendOk, upd) ==
    LET j1 == [j EXCEPT !.pos = @ + consumed, !.outGenerated = produced,
                        !.turn = 1 - @]
        j2 == [j1 EXCEPT !.newSamples =
                  SeqAppend(@, CopySamples([i \in 1..produced |-> Resampled],
                                           "float", j.target.fmt))]
    IN  IF ~getOk
        THEN [status |-> "throw", raised |-> "Resampling failed.", job |-> j]
        ELSE IF produced < 0
        THEN [status |-> "throw", raised |-> "Resampling failed.", job |-> j1]
        ELSE IF produced > 0 /\ ~appendOk
        THEN [status |-> "throw", raised |-> "Sequence", job |-> j1]
        ELSE IF j.progress /\ upd # "Success"
        THEN [status |-> "throw", raised |-> "UserException", job |-> j2]
        ELSE [status |-> "loop", raised |-> "none", job |-> j2]

\* The end of Resample: the new Sequence and the new rate are moved in.
ResampleSwap(j) ==
    [j.target EXCEPT !.samples = j.newSamples, !.rate = j.rate]

Invalidate(l) == [l EXCEPT !.invalidates = 1]

\* ------------------------------------------------------------- calls
Times == -1..7
Lengths == {1, 2}

Throw == "Sequence"

\* What every call does on its way in.
Enter(op, t0, t1) ==
    /\ pc = "idle"
    /\ nOps < MaxOps
    /\ nOps' = nOps + 1
    /\ last' = Call(op, clip, t0, t1)

\* What GetIdealAppendLen() may answer once the Sequence's content is
\* samples: anything from 1 to the maximum block size if it has changed.
IdealAfter(samples) ==
    IF samples = clip.samples THEN {idealAppendLen} ELSE 1..MaxBlockSize

\* A call that ran in one piece ends with r = [clip, threw, listener].
Return(r) ==
    /\ clip' = r.clip
    /\ listener' = r.listener
    /\ raised' = IF r.threw THEN Throw ELSE "none"
    /\ idealAppendLen' \in IdealAfter(r.clip.samples)
    /\ pc' = "idle"
    /\ job' = NoJob

Clear(t0, t1) ==
    /\ Enter("Clear", t0, t1)
    /\ \E ok \in BOOLEAN : Return(ClearClip(clip, t0, t1, ok))
    /\ OtherThrough
    /\ UNCHANGED <<fed, lost, nextId, answer>>

ClearAndAddCutLine(t0, t1) ==
    /\ Enter("ClearAndAddCutLine", t0, t1)
    /\ \E fault \in {"none", "copy", "delete"} :
          Return(ClearAndAddCutLineClip(clip, t0, t1, fault, nOps + 1))
    /\ OtherThrough
    /\ UNCHANGED <<fed, lost, nextId, answer>>

InsertSilence(t, len) ==
    /\ Enter("InsertSilence", t, len)
    /\ \E ok \in BOOLEAN : Return(InsertSilenceClip(clip, t, len, ok))
    /\ OtherThrough
    /\ UNCHANGED <<fed, lost, nextId, answer>>

RemoveCutLine(cutLinePosition) ==
    /\ Enter("RemoveCutLine", cutLinePosition, 0)
    /\ Return(RemoveCutLineClip(clip, cutLinePosition))
    /\ OtherThrough
    /\ UNCHANGED <<fed, lost, nextId, answer>>

SetRate(rate) ==
    /\ Enter("SetRate", rate, 0)
    /\ Return(SetRateClip(clip, rate))
    /\ OtherThrough
    /\ UNCHANGED <<fed, lost, nextId, answer>>

SetSamples(start, format) ==
    /\ Enter("SetSamples", start, 0)
    /\ \E ok \in BOOLEAN : Return(SetSamplesClip(clip, <<7>>, format, start, ok))
    /\ OtherThrough
    /\ UNCHANGED <<fed, lost, nextId, answer>>

SetOffsetCall(offset) ==
    /\ Enter("SetOffset", offset, 0)
    /\ Return([clip |-> SetOffset(clip, offset), threw |-> FALSE,
               listener |-> Quiet])
    /\ OtherThrough
    /\ UNCHANGED <<fed, lost, nextId, answer>>

\* A caller makes a copy of the clip, with its cut lines, and keeps it as
\* other.
CopyConstruct ==
    /\ Enter("WaveClip", 0, 0)
    /\ other' = CopyClip(clip, TRUE, nOps + 1)
    /\ listener' = Quiet
    /\ raised' = "none"
    /\ UNCHANGED <<clip, idealAppendLen, pc, job, fed, lost, nextId, answer>>

\* ------------------------------------------------------------- Paste calls
\* How a Paste ends, for its caller cont: Paste itself, or ExpandCutLine,
\* which still has to erase the cut line it pasted.  pasted is the object
\* Paste worked on.
AfterPaste(r, cont, pasted) ==
    /\ clip' = r.clip
    /\ listener' = r.listener
    /\ raised' = IF r.threw THEN Throw ELSE "none"
    /\ idealAppendLen' \in IdealAfter(r.clip.samples)
    /\ other' = Through(IF cont.ref = "other" /\ cont.idx = 0 THEN pasted ELSE other,
                         r.clip)
    /\ IF cont.op = "ExpandCutLine" /\ ~r.threw
       THEN /\ pc' = "erase"
            /\ job' = [op |-> "ExpandCutLine", idx |-> cont.idx,
                       cutline |-> cont.cutline]
       ELSE /\ pc' = "idle"
            /\ job' = NoJob

\* Paste(t0, o) on c, called by cont.op: lines 470-522.
DoPaste(c, t0, o, cont) ==
    LET src == PasteSource(c, o, nOps + 1)
        k == [cont EXCEPT !.ref = src.ref]
    IN  \E fault \in {"none", "copy", "convert", "cutlines", "paste"} :
          IF src.ref = "copy" /\ fault = "copy"
          THEN AfterPaste([clip |-> c, threw |-> TRUE, listener |-> Quiet],
                          k, src.clip)
          ELSE IF src.clip.rate # c.rate
          THEN /\ pc' = "resample"
               /\ job' = ResampleJob(src.clip, c.rate, FALSE, k)
               /\ clip' = c
               /\ listener' = Quiet
               /\ raised' = "none"
               /\ OtherThrough
               /\ UNCHANGED idealAppendLen
          ELSE AfterPaste(PasteFrom(c, t0, src.clip, fault, nOps + 1), k,
                          Converted(c, src.clip, fault))

Caller(op, t0, idx, cutline) ==
    [op |-> op, t0 |-> t0, idx |-> idx, cutline |-> cutline, ref |-> "none"]

Paste(t0) ==
    /\ Enter("Paste", t0, 0)
    /\ DoPaste(clip, t0, other, Caller("Paste", t0, 0, other))
    /\ UNCHANGED <<fed, lost, nextId, answer>>

ExpandCutLine(cutLinePosition) ==
    /\ Enter("ExpandCutLine", cutLinePosition, 0)
    /\ LET i == FindCutLine(clip, cutLinePosition)
           c == ExpandPrepare(clip, i)
       IN  IF i = 0
           THEN /\ Return([clip |-> clip, threw |-> FALSE, listener |-> Quiet])
                /\ UNCHANGED other
           ELSE DoPaste(c, c.offset + c.cutLines[i].offset, c.cutLines[i],
                        Caller("ExpandCutLine", c.offset + c.cutLines[i].offset,
                               i, c.cutLines[i]))
    /\ UNCHANGED <<fed, lost, nextId, answer>>

\* The end of ExpandCutLine: the pasted cut line is erased.
ExpandErase ==
    /\ pc = "erase"
    /\ clip' = [clip EXCEPT !.cutLines = RemoveAt(@, job.idx)]
    /\ pc' = "idle"
    /\ job' = NoJob
    /\ OtherThrough
    /\ UNCHANGED <<idealAppendLen, listener, fed, lost, nextId, raised,
                   nOps, last, answer>>

\* ------------------------------------------------------------- Resample calls
ResampleBegin(rate, progress) ==
    /\ Enter("Resample", rate, 0)
    /\ IF rate = clip.rate
       THEN /\ Return([clip |-> clip, threw |-> FALSE, listener |-> Quiet])
       ELSE /\ pc' = "resample"
            /\ job' = ResampleJob(clip, rate, progress,
                                  Caller("Resample", 0, 0, clip))
            /\ listener' = Quiet
            /\ raised' = "none"
            /\ UNCHANGED <<clip, idealAppendLen>>
    /\ OtherThrough
    /\ UNCHANGED <<fed, lost, nextId, answer>>

\* One turn of the loop, with what the collaborators answer in it.
ResampleStep(getOk, consumed, produced, appendOk, upd) ==
    /\ pc = "resample"
    /\ LoopRuns(job)
    /\ consumed \in 0..InLen(job)
    /\ produced <= OutputQuota(GetNumSamples(job.target), job.target.rate, job.rate)
                      - Len(job.newSamples)
    /\ LET r == ResampleTurn(job, getOk, consumed, produced, appendOk, upd)
       IN  IF r.status = "loop"
           THEN /\ job' = r.job
                /\ UNCHANGED <<clip, idealAppendLen, pc, listener, other, raised>>
           ELSE /\ raised' = r.raised
                /\ pc' = "idle"
                /\ job' = NoJob
                /\ UNCHANGED <<clip, idealAppendLen, listener, other>>
    /\ UNCHANGED <<fed, lost, nextId, nOps, last, answer>>

\* What a turn's collaborators can answer: Get fails and nothing else is
\* asked; or Process answers, and then the append fails, or it succeeds and
\* Update answers.
ResampleIter ==
    \/ ResampleStep(FALSE, 0, 0, TRUE, "Success")
    \/ pc = "resample" /\ \E consumed \in 0..bufsize, produced \in -1..bufsize :
          \/ produced > 0 /\ ResampleStep(TRUE, consumed, produced, FALSE, "Success")
          \/ \E upd \in IF job.progress /\ produced >= 0
                         THEN {"Success", "Cancelled", "Failed"}
                         ELSE {"Success"} :
                ResampleStep(TRUE, consumed, produced, TRUE, upd)

\* The loop is left: the new Sequence is moved in, and the caller goes on.
ResampleExit ==
    /\ pc = "resample"
    /\ ~LoopRuns(job)
    /\ IF job.cont.op = "Resample"
       THEN /\ clip' = ResampleSwap(job)
            /\ listener' = Invalidate(listener)
            /\ idealAppendLen' \in 1..MaxBlockSize
            /\ pc' = "idle"
            /\ job' = NoJob
            /\ OtherThrough
            /\ UNCHANGED raised
       ELSE \E fault \in {"none", "convert", "cutlines", "paste"} :
               AfterPaste(PasteFrom(clip, job.cont.t0, ResampleSwap(job), fault, nOps),
                          job.cont, Converted(clip, ResampleSwap(job), fault))
    /\ UNCHANGED <<fed, lost, nextId, nOps, last, answer>>

\* ------------------------------------------------------------- queries
\* What a query answers: the exception it throws ("none" if it returns), the
\* value it returns (<<>> if it throws), and the range (start, len) it asks
\* the Sequence to scan (<<>> if it does not ask).
Answer(mayThrow, threw, value, scan) ==
    [mayThrow |-> mayThrow, threw |-> threw, value |-> value, scan |-> scan]

NoAnswer == Answer(FALSE, "none", <<>>, <<>>)

\* Sequence::GetMinMax(start, len) and Sequence::GetRMS(start, len), on the
\* content: the least and the greatest of the samples [start, start + len),
\* and the whole part of the root of the mean of their squares; 0 for an
\* empty range.
SeqGetMinMax(samples, start, len) ==
    LET scanned == {samples[i] : i \in (start + 1)..(start + len)}
    IN  IF scanned = {} THEN <<0, 0>>
        ELSE << CHOOSE v \in scanned : \A w \in scanned : v <= w,
                CHOOSE v \in scanned : \A w \in scanned : v >= w >>

RECURSIVE SumSq(_)
SumSq(buffer) ==
    IF buffer = <<>> THEN 0 ELSE Head(buffer) * Head(buffer) + SumSq(Tail(buffer))

SeqGetRMS(samples, start, len) ==
    LET mean == SumSq(SubSeq(samples, start + 1, start + len)) \div Max(len, 1)
    IN  << CHOOSE r \in 0..mean : r * r <= mean /\ (r + 1) * (r + 1) > mean >>

\* A GetMinMax that answers zero to t0 > t1 whatever mayThrow says.
GetMinMaxSilent(c, t0, t1, mayThrow) ==
    IF t0 >= t1
    THEN Answer(mayThrow, "none", <<0, 0>>, <<>>)
    ELSE LET s0 == TimeToSamplesClip(c, t0)
             s1 == TimeToSamplesClip(c, t1)
         IN  Answer(mayThrow, "none", SeqGetMinMax(c.samples, s0, s1 - s0),
                    <<s0, s1 - s0>>)

\* Lines 212-233.
GetMinMax(c, t0, t1, mayThrow) ==
    IF t0 > t1
    THEN IF mayThrow
         THEN Answer(mayThrow, "Inconsistency", <<>>, <<>>)
         ELSE Answer(mayThrow, "none", <<0, 0>>, <<>>)
    ELSE IF t0 = t1
    THEN Answer(mayThrow, "none", <<0, 0>>, <<>>)
    ELSE LET s0 == TimeToSamplesClip(c, t0)
             s1 == TimeToSamplesClip(c, t1)
         IN  Answer(mayThrow, "none", SeqGetMinMax(c.samples, s0, s1 - s0),
                    <<s0, s1 - s0>>)

\* Lines 235-252.
GetRMS(c, t0, t1, mayThrow) ==
    IF t0 > t1
    THEN IF mayThrow
         THEN Answer(mayThrow, "Inconsistency", <<>>, <<>>)
         ELSE Answer(mayThrow, "none", <<0>>, <<>>)
    ELSE IF t0 = t1
    THEN Answer(mayThrow, "none", <<0>>, <<>>)
    ELSE LET s0 == TimeToSamplesClip(c, t0)
             s1 == TimeToSamplesClip(c, t1)
         IN  Answer(mayThrow, "none", SeqGetRMS(c.samples, s0, s1 - s0),
                    <<s0, s1 - s0>>)

\* A test that lets a difference of exactly half a sample pass.
SharesBoundaryInclusive(c, next) ==
    2 * Abs(next.rate * next.offset
              - (c.rate * c.offset + GetNumSamples(c) * TicksPerSecond))
       <= TicksPerSecond

\* Lines 870-878: fabs(startNext - endThis) < 0.5, with both sides in
\* samples; offsets being in ticks, the inequality is taken TicksPerSecond
\* times.
SharesBoundaryWithNextClip(c, next) ==
    2 * Abs(next.rate * next.offset
              - (c.rate * c.offset + GetNumSamples(c) * TicksPerSecond))
       < TicksPerSecond

\* floor(t * mRate + 0.5), t being in ticks.
TimeToSample(c, t) == (2 * t * c.rate + TicksPerSecond) \div (2 * TicksPerSecond)

\* Lines 179-187.
GetStartSample(c) == TimeToSample(c, c.offset)

GetEndSample(c) == GetStartSample(c) + GetNumSamples(c)

\* A test that takes the clip's first sample as within the clip.
WithinClipFromStart(c, t) ==
    /\ TimeToSample(c, t) >= GetStartSample(c)
    /\ TimeToSample(c, t) < GetEndSample(c) + Len(c.buf)

\* Lines 194-210.
WithinClip(c, t) ==
    /\ TimeToSample(c, t) > GetStartSample(c)
    /\ TimeToSample(c, t) < GetEndSample(c) + Len(c.buf)

BeforeClip(c, t) == TimeToSample(c, t) <= GetStartSample(c)

AfterClip(c, t) == TimeToSample(c, t) >= GetEndSample(c) + Len(c.buf)

\* A query is a call that changes nothing and leaves an answer; one query
\* is followed through in a behaviour.
Ask(op, t0, t1, a) ==
    /\ pc = "idle"
    /\ answer = NoAnswer
    /\ last' = Call(op, clip, t0, t1)
    /\ answer' = a
    /\ raised' = a.threw
    /\ listener' = Quiet
    /\ UNCHANGED <<clip, idealAppendLen, pc, job, other, fed, lost, nextId, nOps>>

AskMinMax(t0, t1, mayThrow) ==
    Ask("GetMinMax", t0, t1, GetMinMax(clip, t0, t1, mayThrow))

AskRMS(t0, t1, mayThrow) ==
    Ask("GetRMS", t0, t1, GetRMS(clip, t0, t1, mayThrow))

AskTimeToSamples(t) ==
    Ask("TimeToSamplesClip", t, 0,
        Answer(FALSE, "none", <<TimeToSamplesClip(clip, t)>>, <<>>))

AskSharesBoundary ==
    Ask("SharesBoundaryWithNextClip", 0, 0,
        Answer(FALSE, "none", <<SharesBoundaryWithNextClip(clip, other)>>, <<>>))

AskWithinClip(t) ==
    Ask("WithinClip", t, 0, Answer(FALSE, "none", <<WithinClip(clip, t)>>, <<>>))

AskBeforeClip(t) ==
    Ask("BeforeClip", t, 0, Answer(FALSE, "none", <<BeforeClip(clip, t)>>, <<>>))

AskAfterClip(t) ==
    Ask("AfterClip", t, 0, Answer(FALSE, "none", <<AfterClip(clip, t)>>, <<>>))

\* ------------------------------------------------------------- behaviours
\* A behaviour of the append path starts from a clip as its constructor
\* leaves it, with colour index 0 and not a placeholder, or with the colour
\* index and the placeholder flag set; copies of the clip are made on the
\* way.
InitAppend ==
    /\ \E made \in {<<0, FALSE>>, <<1, TRUE>>} :
          clip = [NewClip("int16", 10000) EXCEPT !.colourIndex = made[1],
                                                !.isPlaceholder = made[2]]
    /\ idealAppendLen \in 1..MaxBlockSize
    /\ pc = "idle"
    /\ job = NoJob
    /\ listener = Quiet
    /\ other = [NewClip("float", 10000) EXCEPT !.id = <<-1>>]
    /\ fed = <<>>
    /\ lost = FALSE
    /\ nextId = 1
    /\ raised = "none"
    /\ nOps = 0
    /\ last = Call("none", clip, 0, 0)
    /\ answer = NoAnswer

NextAppend ==
    \/ \E len \in 0..MaxLen, f \in Formats : AppendBegin(len, f)
    \/ AppendIter
    \/ Flush
    \/ CopyConstruct

SpecAppend == InitAppend /\ [][NextAppend]_vars

\* A behaviour of the whole clip starts after samples 1 to 4 were recorded
\* and one call, ClearAndAddCutLine(2, 4), has cut sample 2 out: the clip
\* has a cut line, and last tells of that call.  The clips pasted from: one
\* of the same rate and format, with a cut line and an unflushed sample; one
\* of another rate and format.
CutLine(offset, samples) ==
    [id |-> <<-2>>, offset |-> offset, rate |-> 10000, fmt |-> "float",
     samples |-> samples, buf |-> <<>>, envOffset |-> offset, cutLines |-> <<>>,
     colourIndex |-> 0, isPlaceholder |-> FALSE]

Others ==
    { [id |-> <<-1>>, offset |-> 0, rate |-> 10000, fmt |-> "float",
       samples |-> <<11, 12>>, buf |-> <<14>>, envOffset |-> 0,
       cutLines |-> <<CutLine(2, <<13>>)>>,
       colourIndex |-> 0, isPlaceholder |-> FALSE],
      [id |-> <<-1>>, offset |-> 4, rate |-> 5000, fmt |-> "int16",
       samples |-> <<21>>, buf |-> <<>>, envOffset |-> 4, cutLines |-> <<>>,
       colourIndex |-> 0, isPlaceholder |-> FALSE] }

\* The clip as recorded, before the cut.
Recorded == [NewClip("float", 10000) EXCEPT !.samples = Ids(1, 4)]

Init ==
    /\ clip = ClearAndAddCutLineClip(Recorded, 2, 4, "none", 1).clip
    /\ idealAppendLen \in 1..MaxBlockSize
    /\ pc = "idle"
    /\ job = NoJob
    /\ listener = ClearAndAddCutLineClip(Recorded, 2, 4, "none", 1).listener
    /\ other \in Others
    /\ fed = <<Ids(1, 4)>>
    /\ lost = FALSE
    /\ nextId = 5
    /\ raised = "none"
    /\ nOps = 1
    /\ last = Call("ClearAndAddCutLine", Recorded, 2, 4)
    /\ answer = NoAnswer

Next ==
    \/ \E len \in 0..MaxLen, f \in Formats : AppendBegin(len, f)
    \/ AppendIter
    \/ Flush
    \/ \E t0 \in Times, t1 \in Times : t0 <= t1 /\ Clear(t0, t1)
    \/ \E t0 \in Times, t1 \in Times : t0 <= t1 /\ ClearAndAddCutLine(t0, t1)
    \/ \E t \in Times, len \in Lengths : InsertSilence(t, len)
    \/ \E t \in Times : Paste(t)
    \/ \E t \in Times : ExpandCutLine(t)
    \/ ExpandErase
    \/ \E t \in Times : RemoveCutLine(t)
    \/ \E r \in Rates : SetRate(r)
    \/ \E start \in 0..2, f \in Formats : SetSamples(start, f)
    \/ \E r \in Rates, progress \in BOOLEAN : ResampleBegin(r, progress)
    \/ ResampleIter
    \/ ResampleExit

Spec == Init /\ [][Next]_vars

\* A behaviour of the queries starts from any of a set of clips: before,
\* at and off the time origin, at 1, 5000 and 10000 Hz, empty or not, with
\* and without unflushed samples; the next clip begins at, shortly before or
\* shortly after the end of the clip's Sequence, or far from it.
QueryRates == {1} \cup Rates
QueryOffsets == {-4, 3}
QuerySamples == {Take(<<3, -1, 2>>, n) : n \in {0, 1, 3}}
Gaps == {-10000, -2, -1, 0, 1, 2, 10000}

QueryClips ==
    { [NewClip("float", r) EXCEPT !.offset = o, !.envOffset = o,
                                  !.samples = smp, !.buf = b] :
         r \in QueryRates, o \in QueryOffsets, smp \in QuerySamples,
         b \in {<<>>, <<9>>} }

NextClips(c) ==
    { SetOffset([NewClip("float", r) EXCEPT !.id = <<-1>>],
                c.offset + SamplesToTime(GetNumSamples(c), c.rate) + g) :
         r \in QueryRates, g \in Gaps }

\* The times a query is made with: the sample boundaries of the clip, the
\* points half a sample (at 10000 Hz) after them, and a point before the clip.
QueryTimes(c) ==
    {GetStartTime(c) - 1} \cup
    { c.offset + SamplesToTime(k, c.rate) + d :
         k \in 0..(GetNumSamples(c) + Len(c.buf)), d \in {0, 1} }

InitQuery ==
    /\ clip \in QueryClips
    /\ other \in NextClips(clip)
    /\ idealAppendLen = MaxBlockSize
    /\ pc = "idle"
    /\ job = NoJob
    /\ listener = Quiet
    /\ fed = <<>>
    /\ lost = FALSE
    /\ nextId = 1
    /\ raised = "none"
    /\ nOps = 0
    /\ last = Call("none", clip, 0, 0)
    /\ answer = NoAnswer

NextQuery ==
    \/ \E t0 \in QueryTimes(clip), t1 \in QueryTimes(clip), mayThrow \in BOOLEAN :
          AskMinMax(t0, t1, mayThrow)
    \/ \E t0 \in QueryTimes(clip), t1 \in QueryTimes(clip), mayThrow \in BOOLEAN :
          AskRMS(t0, t1, mayThrow)
    \/ \E t \in QueryTimes(clip) : AskTimeToSamples(t)
    \/ AskSharesBoundary
    \/ \E t \in QueryTimes(clip) : AskWithinClip(t)
    \/ \E t \in QueryTimes(clip) : AskBeforeClip(t)
    \/ \E t \in QueryTimes(clip) : AskAfterClip(t)

SpecQuery == InitQuery /\ [][NextQuery]_vars

\* A behaviour of a clip and its copy starts when the copy has been made, of
\* a clip with a cut line or of a clip whose cut line holds a cut line, and
\* goes on with the calls that edit the clip; the clip edited is the original
\* in one behaviour and the copy in another.
OnceCut == ClearAndAddCutLineClip(Recorded, 2, 4, "none", -2).clip

TwiceCut == ClearAndAddCutLineClip(OnceCut, 0, 4, "none", -1).clip

InitCopy ==
    /\ \E orig \in {OnceCut, TwiceCut} :
          \/ clip = orig /\ other = CopyClip(orig, TRUE, 0)
          \/ other = orig /\ clip = CopyClip(orig, TRUE, 0)
    /\ idealAppendLen = MaxBlockSize
    /\ pc = "idle"
    /\ job = NoJob
    /\ listener = Quiet
    /\ fed = <<>>
    /\ lost = FALSE
    /\ nextId = 5
    /\ raised = "none"
    /\ nOps = 1
    /\ last = Call("WaveClip", clip, 0, 0)
    /\ answer = NoAnswer

NextCopy ==
    \/ \E len \in 1..MaxLen : AppendBegin(len, "float")
    \/ AppendIter
    \/ Flush
    \/ \E t0 \in Times, t1 \in Times : t0 <= t1 /\ Clear(t0, t1)
    \/ \E t0 \in Times, t1 \in Times : t0 <= t1 /\ ClearAndAddCutLine(t0, t1)
    \/ \E t \in Times, len \in Lengths : InsertSilence(t, len)
    \/ \E t \in Times : Paste(t)
    \/ \E t \in Times : SetOffsetCall(t)
    \/ \E t \in Times : RemoveCutLine(t)
    \/ \E t \in Times : ExpandCutLine(t)
    \/ ExpandErase

SpecCopy == InitCopy /\ [][NextCopy]_vars

\* ------------------------------------------------------------- append and flush
RECURSIVE Concat(_)
Concat(chunks) ==
    IF chunks = <<>> THEN <<>> ELSE Head(chunks) \o Concat(Tail(chunks))

\* C1: samples appended in any chunks (of length 0, 1 or more) and flushed,
\* with no Sequence failure, are in the Sequence in the order they were handed
\* over, as they would be after one Append of all of them and a Flush.
C1_AppendFlushRoundTrip ==
    (pc = "idle" /\ clip.buf = <<>> /\ ~lost) => clip.samples = Concat(fed)

\* Three calls, two of them Appends of 1 and 2 samples, and all three samples
\* are in the Sequence.
C1_Witness ==
    /\ pc = "idle" /\ nOps = 3 /\ ~lost
    /\ Len(fed) = 2 /\ Len(fed[1]) = 1 /\ Len(fed[2]) = 2
    /\ clip.buf = <<>> /\ Len(clip.samples) = 3

\* C5: when the Sequence append throws during Append, the Sequence still
\* starts with all it had before the call, and Sequence plus append buffer
\* is the content before the call followed by a prefix of the input.
C5_AppendPartialSafety ==
    [][(AppendIter /\ raised' = "Sequence") =>
          /\ IsPrefix(job.pre.samples, clip'.samples)
          /\ \E k \in 0..Len(job.input) :
                clip'.samples \o clip'.buf =
                   job.pre.samples \o job.pre.buf \o Take(job.input, k)]_vars

\* An Append has thrown after it had flushed one block and buffered more.
C5_Witness ==
    /\ pc = "idle" /\ last.op = "Append" /\ raised = "Sequence"
    /\ Len(clip.samples) > Len(last.pre.samples) /\ clip.buf # <<>>

\* C6: Flush leaves the append buffer empty whether it returns or throws;
\* when it returns the Sequence has grown by the buffer's samples, at its end
\* and in order; when it throws the Sequence has lost nothing.
C6_FlushZeroesBuffer ==
    [][Flush =>
          /\ clip'.buf = <<>>
          /\ raised' = "none" => clip'.samples = clip.samples \o clip.buf
          /\ raised' # "none" => IsPrefix(clip.samples, clip'.samples)]_vars

\* A Flush of a filled buffer has thrown.
C6_Witness ==
    /\ pc = "idle" /\ raised = "Sequence" /\ clip.buf = <<>>
    /\ lost /\ listener.marks = 1

\* C8, as stated: with no call in progress the append buffer is no longer
\* than the Sequence's ideal append length.
C8_BufferWithinIdeal ==
    pc = "idle" => Len(clip.buf) <= idealAppendLen

\* C8, as the code has it: with no call in progress the append buffer is no
\* longer than the Sequence's maximum block size.
C8_BufferWithinMaxBlock ==
    pc = "idle" => Len(clip.buf) <= MaxBlockSize

\* An Append has thrown and left more in the buffer than the ideal length.
C8_Witness ==
    /\ pc = "idle" /\ raised = "Sequence"
    /\ Len(clip.buf) = MaxBlockSize /\ idealAppendLen < MaxBlockSize

\* ------------------------------------------------------------- cut lines and Clear
\* The absolute position of the clip's i-th cut line.
AbsPos(c, i) == c.offset + c.cutLines[i].offset

\* The cut line cl is in the clip, at the absolute position p.
StillAt(cl, p) ==
    \E k \in 1..Len(clip.cutLines) :
        /\ clip.cutLines[k].samples = cl.samples
        /\ clip.cutLines[k].cutLines = cl.cutLines
        /\ AbsPos(clip, k) = p

\* The last call has returned.
Returned(op) == pc = "idle" /\ last.op = op /\ raised = "none"

\* C2: a Clear(t0, t1) with t0 <= t1 that returns keeps every cut line at an
\* absolute position p >= t1, and moves it to p - (t1 - t0).
C2_ShiftFromT1 ==
    (Returned("Clear") /\ last.t0 <= last.t1) =>
       \A i \in 1..Len(last.pre.cutLines) :
          last.t1 <= AbsPos(last.pre, i) =>
             StillAt(last.pre.cutLines[i],
                     AbsPos(last.pre, i) - (last.t1 - last.t0))

\* ------------------------------------------------------------- cut and expand
\* The span of a clip holds t.
InSpan(c, t) == GetStartTime(c) <= t /\ t <= GetEndTime(c)

\* C3: after a ClearAndAddCutLine(t0, t1) with t0 <= t1 inside the clip's
\* span, an ExpandCutLine at the new cut line's absolute position, t0, that
\* does its Paste leaves the Sequence with the content it had before the cut.
C3_CutThenExpandRestores ==
    [][(/\ Returned("ClearAndAddCutLine")
        /\ last.t0 <= last.t1
        /\ InSpan(last.pre, last.t0) /\ InSpan(last.pre, last.t1)
        /\ ExpandCutLine(last.t0)
        /\ pc' = "erase") => clip'.samples = last.pre.samples]_vars

\* ------------------------------------------------------------- Resample
\* C4: a Resample call leaves the clip alone until its loop has ended with
\* every sample read and nothing more to put out, and then moves the new
\* Sequence and rate in; a turn in which Get fails or the resampler reports
\* an error ends the call with "Resampling failed.", a turn after which
\* Update reports anything but success ends it with a UserException, and
\* both leave the clip as it was.
C4_ResampleAtomic ==
    [][(pc = "resample" /\ job.cont.op = "Resample") =>
          /\ clip = last.pre
          /\ clip' # clip =>
                /\ job.pos >= GetNumSamples(clip) /\ job.outGenerated = 0
                /\ raised' = "none"
                /\ clip' = [clip EXCEPT !.samples = job.newSamples,
                                         !.rate = last.t0]
          /\ \A consumed \in 0..bufsize, produced \in -1..bufsize :
                /\ ( \/ ResampleStep(FALSE, consumed, produced, TRUE, "Success")
                     \/ produced < 0 /\
                           ResampleStep(TRUE, consumed, produced, TRUE, "Success") )
                      => raised' = "Resampling failed." /\ pc' = "idle"
                /\ ( /\ job.progress /\ produced >= 0
                     /\ \E upd \in {"Cancelled", "Failed"} :
                           ResampleStep(TRUE, consumed, produced, TRUE, upd) )
                      => raised' = "UserException" /\ pc' = "idle"]_vars

\* A Resample was cancelled after a turn that had put samples out.
C4_Witness ==
    /\ pc = "idle" /\ last.op = "Resample" /\ raised = "UserException"
    /\ clip = last.pre /\ clip.rate # last.t0 /\ Len(clip.samples) > 0

\* ------------------------------------------------------------- GetEndTime
\* C7: GetEndTime() is offset + (numSamples + appendBufferLen) / rate in
\* every state, and an Append of len samples that returns has raised it by
\* len / rate, flushed or not.
C7_EndTimeCountsBuffer ==
    /\ GetEndTime(clip) =
          clip.offset + SamplesToTime(Len(clip.samples) + Len(clip.buf), clip.rate)
    /\ Returned("Append") =>
          GetEndTime(clip) = GetEndTime(last.pre) + SamplesToTime(last.t0, clip.rate)

\* An Append of 2 samples at 5000 Hz has returned with some of them in the
\* Sequence and some in the buffer.
C7_Witness ==
    /\ Returned("Append") /\ last.t0 = 2 /\ clip.rate = 5000
    /\ Len(clip.buf) > 0 /\ Len(clip.samples) > Len(last.pre.samples)

\* ------------------------------------------------------------- MarkChanged
\* The call that ended last has fired MarkChanged, and after it had brought
\* Sequence, append buffer, rate and offset to what they are now.
Marked == listener.marks = 1 /\ listener.seen = Seen(clip)

\* C9, as stated: every call that returns and has changed the clip has fired
\* MarkChanged after the change; Append and Flush also when they throw.
C9_EveryChangeMarked ==
    pc = "idle" =>
       /\ (raised = "none" /\ clip # last.pre) => Marked
       /\ (last.op \in {"Append", "Flush"} /\ clip # last.pre) => Marked

\* C9, as the code has it: SetSamples, Append, Flush, Paste, InsertSilence,
\* Clear, ClearAndAddCutLine, ExpandCutLine and SetRate fire MarkChanged when
\* they return having changed the clip, after the change to the Sequence,
\* rate and offset, and Append and Flush also when they throw; RemoveCutLine
\* fires nothing; Resample fires Invalidate and no MarkChanged.
C9_EditsMarked ==
    pc = "idle" =>
       /\ ( /\ last.op \in {"SetSamples", "Paste", "InsertSilence", "Clear",
                             "ClearAndAddCutLine", "ExpandCutLine", "SetRate"}
            /\ raised = "none" /\ clip # last.pre ) => Marked
       /\ (last.op \in {"Append", "Flush"} /\ clip # last.pre) => Marked
       /\ last.op = "RemoveCutLine" => listener.marks = 0
       /\ (last.op = "Resample" /\ clip # last.pre) =>
              listener.marks = 0 /\ listener.invalidates = 1

\* A RemoveCutLine has erased a cut line and told nobody.
C9_Witness ==
    /\ Returned("RemoveCutLine")
    /\ Len(clip.cutLines) < Len(last.pre.cutLines) /\ listener.marks = 0

\* ------------------------------------------------------------- Paste
\* The cut line ExpandCutLine hands to Paste, as Paste has left it.
PastedCutLine == clip.cutLines[job.idx]

\* C10, as stated: no Paste, returning or throwing, changes the clip it
\* pastes from, be that a clip of its caller or, in ExpandCutLine, a cut line.
C10_PasteKeepsOther ==
    /\ other \in Others
    /\ pc = "erase" => PastedCutLine = job.cutline

\* C10, as the code has it: Paste changes nothing of a clip that is not a
\* cut line of the destination; of the cut line ExpandCutLine hands to it, it
\* moves the offset to the right, by the length of what it pasted, and
\* changes neither rate, sample format, sample content nor cut lines.
C10_PasteKeepsForeignOther ==
    /\ other \in Others
    /\ pc = "erase" =>
          \E d \in 0..(PastedCutLine.offset - job.cutline.offset) :
             PastedCutLine = Offset(job.cutline, d)

\* A Paste from a clip of another rate and format has returned.
C10_Witness ==
    /\ Returned("Paste") /\ other.rate # clip.rate /\ other.fmt # clip.fmt
    /\ Len(clip.samples) > Len(last.pre.samples)

\* ------------------------------------------------------------- failing calls
\* The last call has ended by throwing.
Thrown(op) == pc = "idle" /\ last.op = op /\ raised # "none"

\* C11: a Paste that fails, in the resampling or the conversion of its
\* private copy, in the copy of a cut line or in Sequence::Paste, leaves the
\* clip's Sequence, rate, offset, envelope and cut lines as they were before
\* the call, and fires no MarkChanged; while its private copy is resampled
\* the clip is as before the call too.
C11_PasteStrong ==
    /\ (pc = "resample" /\ last.op = "Paste") => clip = last.pre
    /\ Thrown("Paste") => clip = last.pre /\ listener.marks = 0

\* A Paste into a clip with a cut line at or after t0, from a clip of another
\* rate, has thrown after the resampling.
C11_Witness ==
    /\ Thrown("Paste") /\ raised = Throw /\ other.rate # clip.rate
    /\ Len(clip.cutLines) > 0 /\ AbsPos(clip, 1) >= last.t0

\* C12: an ExpandCutLine whose Paste fails leaves the clip as it was before
\* the call, the matched cut line with its samples, its offset and its
\* envelope offset included.
C12_ExpandStrong ==
    Thrown("ExpandCutLine") => clip = last.pre

\* C13: a SetSamples, an InsertSilence or a Clear whose Sequence operation
\* fails leaves Sequence, offset, rate, append buffer, envelope and cut lines
\* as they were, and fires no MarkChanged.
C13_DelegatesStrong ==
    (Thrown("SetSamples") \/ Thrown("InsertSilence") \/ Thrown("Clear")) =>
       clip = last.pre /\ listener.marks = 0

\* An InsertSilence before a cut line has thrown.
C13_Witness ==
    /\ Thrown("InsertSilence")
    /\ Len(clip.cutLines) > 0 /\ AbsPos(clip, 1) >= last.t0

\* The cut lines of c that do not lie within [t0, t1], in their order.
Outside(c, t0, t1) ==
    SelectSeq(c.cutLines,
              LAMBDA cl : ~(t0 <= c.offset + cl.offset /\ c.offset + cl.offset <= t1))

\* C14: a ClearAndAddCutLine(t0, t1) that throws leaves Sequence, rate,
\* offset, append buffer and envelope as they were; of the cut lines, either
\* all are as they were, or those within [t0, t1] are gone, those after t1
\* have moved left by the length of the part of [t0, t1] inside the clip, the
\* others are as they were, and no cut line was added.
C14_CutWeak ==
    Thrown("ClearAndAddCutLine") =>
       LET pre == last.pre
           kept == Outside(pre, last.t0, last.t1)
           shift == Min(last.t1, GetEndTime(pre)) - Max(last.t0, GetStartTime(pre))
       IN  /\ [clip EXCEPT !.cutLines = <<>>] = [pre EXCEPT !.cutLines = <<>>]
           /\ \/ clip.cutLines = pre.cutLines
              \/ /\ Len(clip.cutLines) = Len(kept)
                 /\ \A i \in 1..Len(kept) :
                       clip.cutLines[i] =
                          IF pre.offset + kept[i].offset > last.t1
                          THEN Offset(kept[i], 0 - shift) ELSE kept[i]

\* A cut has thrown after it had erased one cut line and moved another.
C14_Witness ==
    /\ Thrown("ClearAndAddCutLine") /\ Len(last.pre.cutLines) = 2
    /\ Len(clip.cutLines) = 1 /\ clip.cutLines[1] \notin Range(last.pre.cutLines)

\* ------------------------------------------------------------- Clear
\* C19: a Clear(t0, t1) with t0 <= t1 that returns leaves the Sequence it
\* found without the samples [s0, s1), s0 and s1 being TimeToSamplesClip of
\* t0 and t1 before the call; every cut line that lay within [t0, t1] is
\* gone, and every other cut line is still there, in the same order.
C19_ClearRemovesRange ==
    (Returned("Clear") /\ last.t0 <= last.t1) =>
       LET pre == last.pre
           s0 == TimeToSamplesClip(pre, last.t0)
           s1 == TimeToSamplesClip(pre, last.t1)
           kept == Outside(pre, last.t0, last.t1)
       IN  /\ clip.samples = Take(pre.samples, s0) \o Drop(pre.samples, s1)
           /\ Len(clip.cutLines) = Len(kept)
           /\ \A i \in 1..Len(kept) :
                 /\ clip.cutLines[i].samples = kept[i].samples
                 /\ clip.cutLines[i].cutLines = kept[i].cutLines
                 /\ clip.cutLines[i].rate = kept[i].rate
                 /\ clip.cutLines[i].fmt = kept[i].fmt

\* A Clear has taken samples out, erased the cut line at its t0 and kept
\* another one.
C19_Witness ==
    /\ Returned("Clear") /\ Len(last.pre.cutLines) = 2
    /\ Len(clip.cutLines) = 1 /\ Len(clip.samples) < Len(last.pre.samples)
    /\ \E i \in 1..2 : AbsPos(last.pre, i) = last.t0

\* The last call was a Clear or a ClearAndAddCutLine with t0 <= t1, and it
\* has returned.
Cleared ==
    /\ Returned("Clear") \/ Returned("ClearAndAddCutLine")
    /\ last.t0 <= last.t1

\* The cut lines the call found have the stored offsets its cut-line loop
\* gave them: those after t1 moved by clip_t0 - clip_t1, the others not.
\* clip_t1 is min(t1, GetEndTime()), and GetEndTime() is asked by Clear
\* after the samples are gone, by ClearAndAddCutLine before.
LoopOffsets ==
    LET pre == last.pre
        kept == Outside(pre, last.t0, last.t1)
        gone == TimeToSamplesClip(pre, last.t1) - TimeToSamplesClip(pre, last.t0)
        end == IF last.op = "Clear"
               THEN GetEndTime(pre) - SamplesToTime(gone, pre.rate)
               ELSE GetEndTime(pre)
        shift == Min(last.t1, end) - Max(last.t0, GetStartTime(pre))
    IN  /\ Len(clip.cutLines) >= Len(kept)
        /\ \A i \in 1..Len(kept) :
              clip.cutLines[i].offset =
                 IF pre.offset + kept[i].offset > last.t1
                 THEN kept[i].offset - shift ELSE kept[i].offset

\* C20, as stated: after a Clear or a ClearAndAddCutLine the offset is as
\* before when t0 >= GetStartTime(), and is t0 when t0 < GetStartTime(); in
\* the second case the stored offsets of the cut lines that remain are not
\* changed by the move of the clip.
C20_OffsetMovesToT0 ==
    Cleared =>
       /\ last.t0 >= GetStartTime(last.pre) => clip.offset = last.pre.offset
       /\ last.t0 < GetStartTime(last.pre) => clip.offset = last.t0 /\ LoopOffsets

\* C20, as the code has it: the same, for a Clear and for a
\* ClearAndAddCutLine whose range meets the clip; a ClearAndAddCutLine with
\* t0 > GetEndTime() or t1 < GetStartTime() changes nothing, the offset
\* included.
C20_OffsetMovesUnlessOutside ==
    Cleared =>
       IF /\ last.op = "ClearAndAddCutLine"
          /\ last.t0 > GetEndTime(last.pre) \/ last.t1 < GetStartTime(last.pre)
       THEN clip = last.pre
       ELSE /\ last.t0 >= GetStartTime(last.pre) => clip.offset = last.pre.offset
            /\ last.t0 < GetStartTime(last.pre) =>
                  clip.offset = last.t0 /\ LoopOffsets

\* A cut that began before the clip has moved the clip to its t0, with a cut
\* line that lay after t1 still there.
C20_Witness ==
    /\ Returned("ClearAndAddCutLine") /\ last.t0 < GetStartTime(last.pre)
    /\ clip.offset = last.t0 /\ Len(last.pre.cutLines) = 1
    /\ Len(clip.cutLines) = 2 /\ AbsPos(last.pre, 1) > last.t1

\* ------------------------------------------------------------- queries
\* The last call was the query op.
Asked(op) == pc = "idle" /\ last.op = op

\* C15: for a clip of any rate >= 1 and any offset, TimeToSamplesClip of
\* GetStartTime() is 0, and with an empty append buffer TimeToSamplesClip of
\* GetEndTime() is the Sequence's number of samples.
C15_BoundaryRoundTrip ==
    (Asked("TimeToSamplesClip") /\ clip.rate >= 1) =>
       /\ last.t0 = GetStartTime(clip) => answer.value = <<0>>
       /\ (last.t0 = GetEndTime(clip) /\ clip.buf = <<>>) =>
             answer.value = <<GetNumSamples(clip)>>

\* The end time of a clip of three samples at 5000 Hz that begins before the
\* time origin was converted.
C15_Witness ==
    /\ Asked("TimeToSamplesClip") /\ clip.offset < 0 /\ clip.rate = 5000
    /\ clip.buf = <<>> /\ last.t0 = GetEndTime(clip) /\ answer.value = <<3>>

\* The end of the clip's Sequence, in time.
SequenceEnd(c) == c.offset + SamplesToTime(GetNumSamples(c), c.rate)

\* C16: SharesBoundaryWithNextClip(next) is true exactly when
\* |next.offset * next.rate - (offset * rate + numSamples)| < 0.5; for two
\* clips of one rate that is when the next clip begins less than half a
\* sample before or after the end of the Sequence, and half a sample or more
\* makes it false.
C16_HalfSampleAdjacency ==
    Asked("SharesBoundaryWithNextClip") =>
       /\ answer.value =
             << 2 * Abs(other.offset * other.rate
                          - (clip.offset * clip.rate
                               + GetNumSamples(clip) * TicksPerSecond))
                   < TicksPerSecond >>
       /\ other.rate = clip.rate =>
             answer.value =
                << 2 * clip.rate * Abs(other.offset - SequenceEnd(clip))
                      < TicksPerSecond >>

\* Two clips at 10000 Hz exactly half a sample apart were found not to share
\* a boundary.
C16_Witness ==
    /\ Asked("SharesBoundaryWithNextClip") /\ answer.value = <<FALSE>>
    /\ clip.rate = 10000 /\ other.rate = 10000 /\ GetNumSamples(clip) = 3
    /\ Abs(other.offset - SequenceEnd(clip)) = 1

\* The range of the Sequence a GetMinMax or GetRMS over [t0, t1] has to scan.
Span(c, t0, t1) ==
    << TimeToSamplesClip(c, t0), TimeToSamplesClip(c, t1) - TimeToSamplesClip(c, t0) >>

\* The zero result of the query op.
Zero(op) == IF op = "GetMinMax" THEN <<0, 0>> ELSE <<0>>

\* What GetMinMax and GetRMS do with t0 <= t1: t0 = t1 is answered with zero
\* and the Sequence is not asked; with t0 < t1 the Sequence is asked to scan
\* the samples [TimeToSamplesClip(t0), TimeToSamplesClip(t1)), and GetMinMax
\* answers their least and their greatest.
OrderedRange ==
    /\ last.t0 = last.t1 =>
          answer.threw = "none" /\ answer.value = Zero(last.op) /\ answer.scan = <<>>
    /\ last.t0 < last.t1 =>
          /\ answer.threw = "none" /\ answer.scan = Span(clip, last.t0, last.t1)
          /\ (last.op = "GetMinMax" /\ answer.scan[2] > 0) =>
                LET scanned == {clip.samples[i] :
                                   i \in (answer.scan[1] + 1)..
                                         (answer.scan[1] + answer.scan[2])}
                IN  /\ answer.value[1] \in scanned /\ answer.value[2] \in scanned
                    /\ \A v \in scanned :
                          answer.value[1] <= v /\ v <= answer.value[2]

\* C17, as stated: every GetMinMax and GetRMS with t0 > t1 signals an
\* inconsistency and returns nothing; t0 = t1 and t0 < t1 as above.
C17_ReversedRangeSignalled ==
    (Asked("GetMinMax") \/ Asked("GetRMS")) =>
       /\ last.t0 > last.t1 =>
             answer.threw = "Inconsistency" /\ answer.value = <<>>
       /\ OrderedRange

\* C17, as the code has it: with t0 > t1 the inconsistency is signalled when
\* mayThrow is true; when it is false the zero result is returned, and the
\* Sequence is not asked; t0 = t1 and t0 < t1 as above.
C17_ReversedRangeSignalledIfMayThrow ==
    (Asked("GetMinMax") \/ Asked("GetRMS")) =>
       /\ last.t0 > last.t1 =>
             /\ answer.scan = <<>>
             /\ answer.mayThrow =>
                   answer.threw = "Inconsistency" /\ answer.value = <<>>
             /\ ~answer.mayThrow =>
                   answer.threw = "none" /\ answer.value = Zero(last.op)
       /\ OrderedRange

\* A GetMinMax with t0 > t1 and mayThrow has signalled the inconsistency.
C17_Witness ==
    /\ Asked("GetMinMax") /\ last.t0 > last.t1 /\ answer.mayThrow
    /\ answer.threw = "Inconsistency" /\ Len(clip.samples) = 3

\* ------------------------------------------------------------- copies
\* C18: once a clip has been copied with its cut lines, no Append, Flush,
\* Clear, ClearAndAddCutLine, Paste, InsertSilence, SetOffset, RemoveCutLine
\* or ExpandCutLine of the one changes the other, be it the original or the
\* copy: its Sequence, its offset and its cut lines, at every depth, stay as
\* they are.
C18_CopiesIndependent ==
    [][other' = other]_vars

\* The copy of a clip whose cut line holds a cut line was pasted from the
\* original, and a cut line that came with the paste was expanded.
C18_Witness ==
    /\ Returned("ExpandCutLine") /\ nOps = MaxOps /\ clip.id = <<0, 0>>
    /\ other = TwiceCut /\ Len(clip.samples) > Len(last.pre.samples)
    /\ Len(last.pre.cutLines) > Len(other.cutLines)

\* ------------------------------------------------------------- the cut
\* What a clip holds, at every depth, whichever objects hold it.
RECURSIVE Content(_)
Content(c) ==
    [offset |-> c.offset, rate |-> c.rate, fmt |-> c.fmt,
     colourIndex |-> c.colourIndex, isPlaceholder |-> c.isPlaceholder,
     samples |-> c.samples, buf |-> c.buf, envOffset |-> c.envOffset,
     cutLines |-> [i \in 1..Len(c.cutLines) |-> Content(c.cutLines[i])]]

\* The cut lines of c within [t0, t1], in their order.
Within(c, t0, t1) ==
    SelectSeq(c.cutLines,
              LAMBDA cl : t0 <= c.offset + cl.offset /\ c.offset + cl.offset <= t1)

\* The content of the cut line cl when it is moved to the stored offset p.
MovedTo(cl, p) == [Content(cl) EXCEPT !.offset = p, !.envOffset = p]

\* C21: a ClearAndAddCutLine(t0, t1) with t0 <= t1 that returns has changed
\* nothing if t0 > GetEndTime() or t1 < GetStartTime().  Otherwise the cut
\* lines it leaves are cut lines it found and, last in the list, one new cut
\* line: its stored offset is max(t0, GetStartTime()) less the clip's offset
\* before the call; its samples are the samples [s0, s1) the Sequence has
\* lost, s0 and s1 being TimeToSamplesClip of t0 and t1 before the call; its
\* cut lines are copies of the cut lines the clip had within
\* [max(t0, GetStartTime()), min(t1, GetEndTime())], each at its absolute
\* position less max(t0, GetStartTime()); and none of those is left in the
\* clip.
C21_CutMakesOneCutLine ==
    (Returned("ClearAndAddCutLine") /\ last.t0 <= last.t1) =>
       LET pre == last.pre
           clip_t0 == Max(last.t0, GetStartTime(pre))
           clip_t1 == Min(last.t1, GetEndTime(pre))
           s0 == TimeToSamplesClip(pre, last.t0)
           s1 == TimeToSamplesClip(pre, last.t1)
           inside == Within(pre, clip_t0, clip_t1)
           n == Len(clip.cutLines)
           new == clip.cutLines[n]
           found == {cl.id : cl \in Range(pre.cutLines)}
       IN  IF last.t0 > GetEndTime(pre) \/ last.t1 < GetStartTime(pre)
           THEN clip = pre
           ELSE /\ n >= 1
                /\ new.id \notin found
                /\ \A i \in 1..(n - 1) : clip.cutLines[i].id \in found
                /\ new.offset = clip_t0 - pre.offset
                /\ new.samples = SubSeq(pre.samples, s0 + 1, s1)
                /\ clip.samples = Take(pre.samples, s0) \o Drop(pre.samples, s1)
                /\ Len(new.cutLines) = Len(inside)
                /\ \A i \in 1..Len(inside) :
                      /\ Content(new.cutLines[i]) =
                            MovedTo(inside[i],
                                    pre.offset + inside[i].offset - clip_t0)
                      /\ new.cutLines[i].id \notin found
                      /\ \A j \in 1..(n - 1) :
                            clip.cutLines[j].id # inside[i].id

\* A cut from inside the clip has taken samples and a cut line with it, and
\* the cut line it took has another stored offset in the new cut line.
C21_Witness ==
    /\ Returned("ClearAndAddCutLine") /\ Len(last.pre.cutLines) = 1
    /\ last.t0 > GetStartTime(last.pre)
    /\ Len(clip.cutLines) = 1 /\ Len(clip.cutLines[1].cutLines) = 1
    /\ Len(clip.cutLines[1].samples) > 0
    /\ clip.cutLines[1].cutLines[1].offset # last.pre.cutLines[1].offset

\* ------------------------------------------------------------- the expansion
\* The first cut line, in list order, that the last call found within
\* 0.0001 s of its position; 0 if there was none.
Matched ==
    LET pre == last.pre
        hits == {i \in 1..Len(pre.cutLines) :
                    Abs(pre.offset + pre.cutLines[i].offset - last.t0)
                       < CutLineTolerance}
    IN  IF hits = {} THEN 0 ELSE CHOOSE i \in hits : \A j \in hits : i <= j

\* The Sequence is the one the call found with the samples of its i-th cut
\* line at TimeToSamplesClip of that cut line's absolute position.
ExpandedSamples(i) ==
    LET pre == last.pre
        s0 == TimeToSamplesClip(pre, AbsPos(pre, i))
    IN  /\ clip.samples =
              Take(pre.samples, s0) \o pre.cutLines[i].samples
                 \o Drop(pre.samples, s0)
        /\ Len(clip.samples) = Len(pre.samples) + Len(pre.cutLines[i].samples)

\* Of the cut lines the call found, the i-th and no other is gone, and each
\* cut line of the i-th is now a cut line of the clip, at the i-th's absolute
\* position plus its own offset.
ExpandedCutLines(i) ==
    LET pre == last.pre
        nested == pre.cutLines[i].cutLines
        rest == RemoveAt(pre.cutLines, i)
    IN  /\ Len(clip.cutLines) = Len(rest) + Len(nested)
        /\ \A j \in 1..Len(rest) : clip.cutLines[j].id = rest[j].id
        /\ \A j \in 1..Len(nested) :
              LET new == clip.cutLines[Len(rest) + j]
              IN  /\ Content(new) =
                        MovedTo(nested[j],
                                AbsPos(pre, i) + nested[j].offset - clip.offset)
                  /\ clip.offset + new.offset = AbsPos(pre, i) + nested[j].offset
                  /\ new.id \notin {cl.id : cl \in Range(pre.cutLines)}

\* C22, as stated: an ExpandCutLine(pos) that returns has left the clip as it
\* was if no cut line lies within 0.0001 s of pos; otherwise it has put the
\* samples of the first such cut line into the Sequence at TimeToSamplesClip
\* of the cut line's absolute position, so that numSamples has grown by the
\* cut line's sample count, has erased that cut line and no other, and has
\* made each of its cut lines a cut line of the clip at the expansion
\* position plus its offset.
C22_ExpandInsertsCutLine ==
    Returned("ExpandCutLine") =>
       IF Matched = 0 THEN clip = last.pre
       ELSE ExpandedSamples(Matched) /\ ExpandedCutLines(Matched)

\* C22, as the code has it: the same when the cut line has the clip's rate.
\* A cut line of another rate, which the clip has once its rate was set or
\* it was resampled after the cut, is resampled to the clip's rate before it
\* is pasted: the Sequence then holds what it held before and after the
\* expansion position, with the resampled samples between, and numSamples
\* has grown by their count.
C22_ExpandInsertsAtClipRate ==
    Returned("ExpandCutLine") =>
       IF Matched = 0 THEN clip = last.pre
       ELSE LET pre == last.pre
                s0 == TimeToSamplesClip(pre, AbsPos(pre, Matched))
                grown == Len(clip.samples) - Len(pre.samples)
            IN  /\ pre.cutLines[Matched].rate = pre.rate =>
                      ExpandedSamples(Matched)
                /\ pre.cutLines[Matched].rate # pre.rate =>
                      /\ grown >= 0
                      /\ Take(clip.samples, s0) = Take(pre.samples, s0)
                      /\ Drop(clip.samples, s0 + grown) = Drop(pre.samples, s0)
                      /\ \A j \in (s0 + 1)..(s0 + grown) :
                            clip.samples[j] = Resampled
                /\ ExpandedCutLines(Matched)

\* A cut line that held a cut line was expanded inside the clip: its samples
\* are back and its cut line is a cut line of the clip.
C22_Witness ==
    /\ Returned("ExpandCutLine") /\ Matched # 0
    /\ last.pre.cutLines[Matched].rate = last.pre.rate
    /\ Len(last.pre.cutLines[Matched].cutLines) = 1
    /\ Len(last.pre.cutLines[Matched].samples) > 0
    /\ TimeToSamplesClip(last.pre, AbsPos(last.pre, Matched)) > 0
    /\ Len(clip.samples) > Len(last.pre.samples)

\* ------------------------------------------------------------- the paste
\* The identities of the objects of a clip.
IdsOf(c) == {x.id : x \in Objects(c)}

\* C23: a Paste(t0, other) that returns, other having the clip's rate and
\* format, leaves the Sequence it found with other's Sequence put in at
\* s0 = TimeToSamplesClip(t0).  The cut lines it found are all there, in
\* their order: those at an absolute position >= t0 further right by other's
\* duration, GetEndTime() - GetStartTime(), the others as they were.  After
\* them comes one copy of each cut line of other, with copies of its cut
\* lines at every depth, at the absolute position t0 plus its offset in
\* other.
C23_PasteSplices ==
    (Returned("Paste") /\ other.rate = last.pre.rate /\ other.fmt = last.pre.fmt) =>
       LET pre == last.pre
           t0 == last.t0
           s0 == TimeToSamplesClip(pre, t0)
           duration == GetEndTime(other) - GetStartTime(other)
           n == Len(pre.cutLines)
       IN  /\ clip.samples =
                 Take(pre.samples, s0) \o other.samples \o Drop(pre.samples, s0)
           /\ Len(clip.cutLines) = n + Len(other.cutLines)
           /\ \A i \in 1..n :
                 /\ clip.cutLines[i].id = pre.cutLines[i].id
                 /\ Content(clip.cutLines[i]) =
                       IF AbsPos(pre, i) >= t0
                       THEN MovedTo(pre.cutLines[i],
                                    pre.cutLines[i].offset + duration)
                       ELSE Content(pre.cutLines[i])
           /\ \A j \in 1..Len(other.cutLines) :
                 /\ Content(clip.cutLines[n + j]) =
                       MovedTo(other.cutLines[j],
                               t0 + other.cutLines[j].offset - clip.offset)
                 /\ AbsPos(clip, n + j) = t0 + other.cutLines[j].offset
                 /\ IdsOf(clip.cutLines[n + j]) \cap IdsOf(other) = {}
                 /\ IdsOf(clip.cutLines[n + j]) \cap IdsOf(pre) = {}

\* A clip whose cut line holds a cut line was pasted before the start of a
\* clip with a cut line: the cut line found has moved right and the pasted
\* one has come with its own cut line, at another stored offset.
C23_Witness ==
    /\ Returned("Paste") /\ Len(last.pre.cutLines) = 1
    /\ Len(other.cutLines) = 1 /\ Len(other.cutLines[1].cutLines) = 1
    /\ Len(clip.cutLines) = 2 /\ Len(clip.cutLines[2].cutLines) = 1
    /\ clip.cutLines[1].offset > last.pre.cutLines[1].offset
    /\ clip.cutLines[2].offset # other.cutLines[1].offset
    /\ Len(clip.samples) > Len(last.pre.samples)


\* C27: a Paste(t0, other) that returns has moved every cut line it found at
\* an absolute position >= t0 by the duration of the samples it has put into
\* the Sequence, their count over the rate, whether or not other holds
\* samples in its append buffer.
C27_ShiftIsInsertedDuration ==
    Returned("Paste") =>
       \A i \in 1..Len(last.pre.cutLines) :
          AbsPos(last.pre, i) >= last.t0 =>
             /\ clip.cutLines[i].id = last.pre.cutLines[i].id
             /\ clip.cutLines[i].offset =
                   last.pre.cutLines[i].offset
                      + SamplesToTime(Len(clip.samples) - Len(last.pre.samples),
                                      clip.rate)

\* ------------------------------------------------------------- times to samples
\* C24: TimeToSamplesClip(t) is 0 for t < offset, numSamples for
\* t > offset + numSamples / rate, and otherwise the whole number s with
\* s - 1/2 <= (t - offset) * rate < s + 1/2; it lies in [0, numSamples] and
\* does not decrease with t, and so the length s1 - s0 that GetMinMax and
\* GetRMS hand to the Sequence for t0 <= t1 is not negative.
C24_TimeToSamplesClamped ==
    /\ Asked("TimeToSamplesClip") =>
          LET t == last.t0
              n == GetNumSamples(clip)
              s == answer.value[1]
              x == (t - clip.offset) * clip.rate
          IN  /\ t < clip.offset => s = 0
              /\ x > n * TicksPerSecond => s = n
              /\ (t >= clip.offset /\ x <= n * TicksPerSecond) =>
                    /\ (2 * s - 1) * TicksPerSecond <= 2 * x
                    /\ 2 * x < (2 * s + 1) * TicksPerSecond
              /\ 0 <= s /\ s <= n
              /\ \A u \in QueryTimes(clip) :
                    /\ u <= t => TimeToSamplesClip(clip, u) <= s
                    /\ u >= t => TimeToSamplesClip(clip, u) >= s
    /\ ((Asked("GetMinMax") \/ Asked("GetRMS")) /\ last.t0 <= last.t1
          /\ answer.scan # <<>>) =>
          /\ answer.scan[1] >= 0 /\ answer.scan[2] >= 0
          /\ answer.scan[1] + answer.scan[2] <= GetNumSamples(clip)

\* A time one and a half samples into a clip of three samples at 10000 Hz
\* was converted to sample 2.
C24_Witness ==
    /\ Asked("TimeToSamplesClip") /\ clip.rate = 10000
    /\ GetNumSamples(clip) = 3 /\ answer.value = <<2>>
    /\ 2 * (last.t0 - clip.offset) * clip.rate = 3 * TicksPerSecond

\* ------------------------------------------------------------- within, before, after
\* The whole number s with s - 1/2 <= t * rate < s + 1/2, t being in ticks.
RoundedSample(rate, t) ==
    LET far == (Abs(t) * rate) \div TicksPerSecond + 1
    IN  CHOOSE s \in (0 - far)..far :
           /\ (2 * s - 1) * TicksPerSecond <= 2 * t * rate
           /\ 2 * t * rate < (2 * s + 1) * TicksPerSecond

\* The number of true values among three.
HowMany(a, b, c) ==
    (IF a THEN 1 ELSE 0) + (IF b THEN 1 ELSE 0) + (IF c THEN 1 ELSE 0)

\* C25: with ts the time t rounded to a sample, first the clip's offset
\* rounded to a sample, and past == first + numSamples + appendBufferLen:
\* WithinClip(t) is first < ts < past, BeforeClip(t) is ts <= first and
\* AfterClip(t) is ts >= past; WithinClip is false for ts = first and for
\* ts = past; and of a clip that holds a sample, in the Sequence or in the
\* append buffer, exactly one of the three is true for t.
C25_BoundaryPredicates ==
    LET t == last.t0
        ts == RoundedSample(clip.rate, t)
        first == RoundedSample(clip.rate, clip.offset)
        past == first + GetNumSamples(clip) + Len(clip.buf)
        asked == answer.value[1]
    IN  /\ Asked("WithinClip") =>
              /\ asked = (first < ts /\ ts < past)
              /\ (ts = first \/ ts = past) => ~asked
              /\ past > first =>
                    HowMany(asked, BeforeClip(clip, t), AfterClip(clip, t)) = 1
        /\ Asked("BeforeClip") =>
              /\ asked = (ts <= first)
              /\ past > first =>
                    HowMany(WithinClip(clip, t), asked, AfterClip(clip, t)) = 1
        /\ Asked("AfterClip") =>
              /\ asked = (ts >= past)
              /\ past > first =>
                    HowMany(WithinClip(clip, t), BeforeClip(clip, t), asked) = 1

\* WithinClip has answered false for the first sample of a clip that holds
\* samples in its Sequence and in its append buffer.
C25_Witness ==
    /\ Asked("WithinClip") /\ answer.value = <<FALSE>>
    /\ GetNumSamples(clip) > 0 /\ clip.buf # <<>>
    /\ RoundedSample(clip.rate, last.t0) = RoundedSample(clip.rate, clip.offset)
    /\ last.t0 >= clip.offset

\* ------------------------------------------------------------- cut lines in the span
\* C26: whatever Clear, ClearAndAddCutLine, Paste, InsertSilence,
\* ExpandCutLine and SetOffset calls were made, every cut line of a clip
\* whose append buffer is empty lies, with its absolute position, within
\* [GetStartTime(), GetEndTime()] of the clip.
C26_CutLinesInSpan ==
    (pc = "idle" /\ clip.buf = <<>>) =>
       \A i \in 1..Len(clip.cutLines) : InSpan(clip, AbsPos(clip, i))

\* ------------------------------------------------------------- the append buffer
\* The length of the append buffer where Append asserts it: after the flush
\* of the turn, if the turn makes one.
AssertedLen ==
    IF Len(clip.buf) >= job.blockSize
    THEN Len(clip.buf) - job.blockSize ELSE Len(clip.buf)

\* C28: in every turn of Append, whatever the length of the input and
\* whatever the ideal append length from 1 to the maximum block size, the
\* append buffer holds no more than the maximum block size where the
\* assertion stands and after the copy that follows it.
C28_AppendWithinBuffer ==
    [][(pc = "append" /\ AppendIter) =>
          /\ AssertedLen <= MaxBlockSize
          /\ Len(clip'.buf) <= MaxBlockSize]_vars

\* An Append has filled the buffer to the maximum block size and still has
\* input to copy.
C28_Witness ==
    /\ pc = "append" /\ Len(clip.buf) = MaxBlockSize /\ job.buffer # <<>>
    /\ job.blockSize < MaxBlockSize

\* ------------------------------------------------------------- the copy
\* All the samples a clip holds, in the Sequence and in the append buffer.
Held(c) == GetNumSamples(c) + Len(c.buf)

\* C29: a copy made of a clip has the clip's offset, rate, colour index,
\* placeholder flag and Sequence content, and an empty append buffer; it
\* holds as many samples as the clip, and has the clip's GetEndTime(), if
\* and only if the clip's append buffer was empty.
C29_CopyLeavesPending ==
    (pc = "idle" /\ last.op = "WaveClip" /\ nOps > 0) =>
       /\ other.offset = last.pre.offset
       /\ other.rate = last.pre.rate
       /\ other.colourIndex = last.pre.colourIndex
       /\ other.isPlaceholder = last.pre.isPlaceholder
       /\ other.samples = last.pre.samples /\ other.fmt = last.pre.fmt
       /\ other.buf = <<>>
       /\ GetNumSamples(other) = GetNumSamples(last.pre)
       /\ Held(other) = Held(last.pre) <=> last.pre.buf = <<>>
       /\ GetEndTime(other) = GetEndTime(last.pre) <=> last.pre.buf = <<>>

\* A placeholder clip with samples in its Sequence and in its append buffer
\* was copied.
C29_Witness ==
    /\ pc = "idle" /\ last.op = "WaveClip" /\ nOps > 0
    /\ last.pre.isPlaceholder /\ last.pre.colourIndex = 1
    /\ last.pre.samples # <<>> /\ last.pre.buf # <<>>
    /\ GetEndTime(other) < GetEndTime(last.pre)

\* ------------------------------------------------------------- the end of Resample
\* The turns of the loop with a resampler that consumes at least one sample
\* of every input that is not empty.
ResampleIterConsuming ==
    \/ ResampleStep(FALSE, 0, 0, TRUE, "Success")
    \/ pc = "resample" /\ \E consumed \in 0..bufsize, produced \in -1..bufsize :
          /\ InLen(job) > 0 => consumed >= 1
          /\ \/ produced > 0 /\ ResampleStep(TRUE, consumed, produced, FALSE, "Success")
             \/ \E upd \in IF job.progress /\ produced >= 0
                            THEN {"Success", "Cancelled", "Failed"}
                            ELSE {"Success"} :
                   ResampleStep(TRUE, consumed, produced, TRUE, upd)

\* Resample calls, and Paste calls that resample what they paste, with such
\* a resampler; the output of the resampler is within its quota, so that it
\* puts out nothing in the end.  A loop that is running makes its next turn,
\* or is left.
NextResample ==
    \/ \E r \in Rates, progress \in BOOLEAN : ResampleBegin(r, progress)
    \/ \E t \in Times : Paste(t)
    \/ ResampleIterConsuming
    \/ ResampleExit

SpecResample ==
    Init /\ [][NextResample]_vars /\ WF_vars(ResampleIterConsuming \/ ResampleExit)

Unread(j) == GetNumSamples(j.target) - j.pos

\* C30: with a resampler that consumes at least one sample of every input
\* that is not empty, and that puts out nothing in the end, a Resample that
\* has begun ends, by success, by an error or by cancellation; no turn feeds
\* the resampler more than bufsize samples; and while input is unread or the
\* last turn has put out samples, the loop is left by an exception only.
C30_ResampleTerminates ==
    /\ (pc = "resample") ~> (pc = "idle")
    /\ [][(pc = "resample" /\ pc' = "resample") =>
             job'.pos - job.pos <= Min(bufsize, Unread(job))]_vars
    /\ [][(pc = "resample" /\ pc' # "resample"
             /\ (Unread(job) > 0 \/ job.outGenerated > 0)) =>
             raised' \in {"Resampling failed.", "Sequence", "UserException"}]_vars

\* A loop that has read more than bufsize samples in more than one turn, and
\* whose last turn has put out samples after all the input was read.
C30_Witness ==
    /\ pc = "resample"
    /\ GetNumSamples(job.target) > bufsize
    /\ Unread(job) = 0
    /\ job.outGenerated > 0

=============================================================================
